---- MODULE Spec2Model ----
(***************************************************************************)
(* The task-analytics edge function (supabase/functions/task-analytics/    *)
(* index.ts) and the SQL aggregation routine get_task_analytics            *)
(* (supabase/migrations/002_create_analytics_rpc.sql).                     *)
(*                                                                         *)
(* The specifications share the variables:                                 *)
(*   Spec          the request handler, step by step, over a small store   *)
(*   AggSpec       the two aggregation strategies applied to a snapshot    *)
(*   ScoreSpec     the productivity-score formula applied to bare counts   *)
(*   TrendSpec     the monthly trends of both strategies as days pass      *)
(*   DeadlineSpec  the upcoming deadlines of both strategies               *)
(*   TagSpec       the tag distribution of both strategies                 *)
(***************************************************************************)
EXTENDS Integers, Sequences, FiniteSets, Bags, TLC

VARIABLES
    tasks,           \* the tasks table: a bag of rows
    clock,           \* wall clock, milliseconds
    today,           \* wall clock, calendar date (new Date(), CURRENT_DATE)
    rateLimitStore,  \* Map<string, number[]> of index.ts
    pc,              \* position of the request being handled
    method,          \* req.method
    user,            \* the user auth.getUser() answers, if any
    now,             \* the instant read at index.ts:136
    countsError,     \* error of the rpc call
    taskCounts,      \* data of the rpc call
    analytics,       \* the analytics object of the handler
    returned,        \* the value the handler returns
    error,           \* the error the handler's catch clause caught
    scoreIn,         \* ScoreSpec: the counts given to the formula
    scoreOut,        \* ScoreSpec: the scores computed from scoreIn
    failing,         \* the fallback queries the database fails
    answered,        \* SkewSpec: the count queries answered so far
    inflight,        \* ConcSpec: the position of every request in flight
    admitted,        \* ConcSpec: history of the checks that returned true
    limiterRequests, \* RateLimiter.requests of security.ts
    limiter,         \* RateLimiter: the constructor's arguments
    allowed,         \* RateLimiter: the last call of isAllowed
    cache,           \* Cache.cache of security.ts, in insertion order
    maxSize,         \* Cache.maxSize
    lastSet,         \* Cache: the last call of set, the cache before and after
    served,          \* the version of the report the edge function serves
    fetched          \* useAnalytics: the last call of fetchAnalytics

vars == <<tasks, clock, today, rateLimitStore, pc, method, user, now,
          countsError, taskCounts, analytics, returned, error, scoreIn,
          scoreOut, failing, answered, inflight, admitted, limiterRequests, limiter,
          allowed,
          cache, maxSize, lastSet, served, fetched>>

handlerVars == <<pc, method, user, now, countsError, taskCounts,
                 analytics, returned, error>>

scoreVars == <<scoreIn, scoreOut>>

concVars == <<inflight, admitted>>

limiterVars == <<limiterRequests, limiter, allowed>>

cacheVars == <<cache, maxSize, lastSet, served, fetched>>

\* the state outside the handler, its tables and its clock
otherVars == <<failing, answered, concVars, limiterVars, cacheVars>>

(***************************************************************************)
(* Bounds of the model.                                                    *)
(***************************************************************************)
MaxTasks == 1       \* rows in the store under Spec
MaxAggTasks == 2    \* rows in the snapshot under AggSpec
MaxCount == 12      \* largest total under ScoreSpec
MaxTicks == 1       \* clock advances under Spec
TickMs == 30000     \* length of one clock advance
MaxTrendTasks == 2  \* rows in the snapshot under TrendSpec
MaxDays == 1        \* midnights that pass under TrendSpec
MaxDeadlineTasks == 2  \* rows beside the crowd under DeadlineSpec
MaxTags == 22       \* distinct tags of a row under TagSpec
MaxTagTasks == 2    \* rows of few tags in the snapshot under TagSpec
MaxFaultTasks == 2  \* rows in the snapshot under FaultSpec
MaxInflight == 2    \* requests awaiting getUser at once under ConcSpec
MaxConcRequests == 7  \* requests admitted or in flight under ConcSpec
MaxConcTicks == 2   \* clock advances under ConcSpec
MaxMalformedTasks == 2  \* rows in the snapshot under MalformedSpec
MaxCacheSize == 2   \* largest maxSize of a Cache under CacheSpec
MaxCacheTicks == 1  \* clock advances under CacheSpec
MaxSkewTasks == 2   \* rows in the table under SkewSpec
MaxLimiterTicks == 3  \* clock advances under LimiterSpec
MaxVersions == 2    \* changes of the served report under FetchSpec
MaxFetchTicks == 2  \* clock advances under FetchSpec
FetchTickMs == 200000  \* length of one clock advance under FetchSpec

(***************************************************************************)
(* Values.                                                                 *)
(***************************************************************************)
NaN == 0 - 1                     \* the number NaN (undefined++ in JavaScript)
Some(x) == <<x>>                 \* an optional field that is present
Absent == <<>>                   \* an optional field that is absent
IsPresent(opt) == Len(opt) > 0
Get(opt) == opt[1]
COALESCE(opt, other) == IF IsPresent(opt) THEN Get(opt) ELSE other

Max(a, b) == IF a >= b THEN a ELSE b
Min(a, b) == IF a <= b THEN a ELSE b

NoKeys == [k \in {} |-> 0]       \* the JSON object {}

Statuses == {"pending", "in-progress", "done"}
Priorities == {"low", "medium", "high"}
StoredPriorities == {Absent} \cup {Some(p) : p \in Priorities \cup {"urgent"}}
Owners == {"u1", "u2"}
StartTime == TickMs
DueDates == {Absent, Some(0), Some(StartTime), Some(2 * StartTime)}

\* extras.due_date is text.  A text that is a timestamp is carried as its
\* instant; a text that is no timestamp is carried as one of these numbers,
\* which gives its place in the order of the texts: before the text of
\* every instant after it ("2024-03-15 noon" before "2024-03-16T00:00:00Z")
UnparseableDues == {StartTime - 3, StartTime + 3}

(***************************************************************************)
(* Calendar dates [year, month, day], months 1..12.                        *)
(***************************************************************************)
Date(y, m, d) == [year |-> y, month |-> m, day |-> d]

IsLeapYear(y) == (y % 4 = 0 /\ y % 100 # 0) \/ y % 400 = 0

DaysInMonth(y, m) ==
    IF m = 2 THEN (IF IsLeapYear(y) THEN 29 ELSE 28)
    ELSE IF m \in {4, 6, 9, 11} THEN 30 ELSE 31

\* d1 >= d2
DateGeq(d1, d2) ==
    \/ d1.year > d2.year
    \/ d1.year = d2.year /\ d1.month > d2.month
    \/ d1.year = d2.year /\ d1.month = d2.month /\ d1.day >= d2.day

NextDay(d) ==
    IF d.day < DaysInMonth(d.year, d.month) THEN Date(d.year, d.month, d.day + 1)
    ELSE IF d.month < 12 THEN Date(d.year, d.month + 1, 1)
    ELSE Date(d.year + 1, 1, 1)

\* the year and month of a date as the number YYYYMM, which orders as the
\* text "YYYY-MM" does
YearMonth(d) == d.year * 100 + d.month

StartDate == Date(2024, 3, 15)

\* extras.tags of a row, when present a list of strings
NoTags == Absent

\* rows of the caller under study: every combination of status, priority
\* and due date, created today without tags; then rows with tags and rows
\* created earlier; then rows of another owner
TaskRows ==
    [owner : {"u1"}, status : Statuses, priority : StoredPriorities,
     due : DueDates, inserted_at : {StartDate}, tags : {NoTags}]
    \cup
    [owner : {"u1"}, status : {"done"}, priority : {Some("low")},
     due : {Absent}, inserted_at : {Date(2023, 12, 31), Date(2023, 9, 10)},
     tags : {Some(<<"work", "home">>)}]
    \cup
    [owner : {"u2"}, status : {"done", "pending"}, priority : {Some("high")},
     due : {Some(0), Some(2 * StartTime)}, inserted_at : {StartDate},
     tags : {Some(<<"work">>)}]

(***************************************************************************)
(* Bags of rows.                                                           *)
(***************************************************************************)
RECURSIVE SumCopies(_, _)
SumCopies(B, S) ==
    IF S = {} THEN 0
    ELSE LET k == CHOOSE x \in S : TRUE
         IN  B[k] + SumCopies(B, S \ {k})

\* COUNT( * ) over the rows S of B
CountWhere(B, S) == SumCopies(B, S)

\* the rows S of B
Where(B, S) == [k \in S |-> B[k]]

AddRow(B, row) == B (+) SetToBag({row})

RECURSIVE BagsUpTo(_, _)
BagsUpTo(n, rows) ==
    IF n = 0 THEN {EmptyBag}
    ELSE LET smaller == BagsUpTo(n - 1, rows)
         IN  smaller \cup {AddRow(B, r) : B \in smaller, r \in rows}

\* the subsets of S that have k elements
RECURSIVE KSubsets(_, _)
KSubsets(S, k) ==
    IF k = 0 THEN {{}}
    ELSE IF Cardinality(S) < k THEN {}
    ELSE LET x == CHOOSE y \in S : TRUE
         IN  {K \cup {x} : K \in KSubsets(S \ {x}, k - 1)}
             \cup KSubsets(S \ {x}, k)

\* the numbers of S in ascending order
RECURSIVE Ascending(_)
Ascending(S) ==
    IF S = {} THEN <<>>
    ELSE LET least == CHOOSE x \in S : \A y \in S : x <= y
         IN  <<least>> \o Ascending(S \ {least})

\* the elements of a sequence
Range(seq) == {seq[i] : i \in DOMAIN seq}

\* how many times x occurs in a sequence
Occurrences(seq, x) == Cardinality({i \in DOMAIN seq : seq[i] = x})

(***************************************************************************)
(* get_task_analytics (002_create_analytics_rpc.sql).                      *)
(*                                                                         *)
(* NUMERIC values that come out of a division are carried as               *)
(*   [num, den, err]  =  num/den + err / (den * 10^18)                     *)
(* a::NUMERIC / b, for 0 <= a <= b < 10000, is the quotient rounded half   *)
(* up at 20 decimal places.  10^20 does not fit the model's integers, so   *)
(* the rounded quotient is kept as the exact ratio and the signed rounding *)
(* error e, where  round(a * 10^20 / b) = (a * 10^20 + e) / b.             *)
(***************************************************************************)
NumericDivScale == 20

RECURSIVE Pow10Mod(_, _)
Pow10Mod(k, m) == IF k = 0 THEN 1 % m ELSE (10 * Pow10Mod(k - 1, m)) % m

NumericDivErr(a, b) ==
    LET r == (a * Pow10Mod(NumericDivScale, b)) % b
    IN  IF 2 * r >= b THEN b - r ELSE 0 - r

\* lines 38-41
sql_completion_rate(total_tasks, completed_tasks) ==
    IF total_tasks > 0
    THEN [num |-> completed_tasks * 100, den |-> total_tasks,
          err |-> NumericDivErr(completed_tasks, total_tasks)]
    ELSE [num |-> 0, den |-> 1, err |-> 0]

\* lines 43-53 without LEAST(100, ...) around the volume term
sql_productivity_score_uncapped(total_tasks, completion_rate, overdue_tasks, in_progress_tasks) ==
    IF total_tasks = 0 THEN 0
    ELSE LET exact == 40 * completion_rate.num
                      + 30 * Max(0, 100 * total_tasks - 100 * overdue_tasks)
                      + 20 * total_tasks * (total_tasks * 10)
                      + 10 * total_tasks * Min(100, in_progress_tasks * 25)
         IN  (exact + 50 * total_tasks) \div (100 * total_tasks)

\* lines 43-53.  The sum of the four terms is
\*   exact / (100 * total_tasks) + drift / (total_tasks * 10^20)
\* with |drift| <= 35 * total_tasks, so ROUND differs from the rounding of
\* the exact sum only when the exact sum ends in .5 and drift is negative.
sql_productivity_score(total_tasks, completion_rate, overdue_tasks, in_progress_tasks) ==
    IF total_tasks = 0 THEN 0
    ELSE LET exact == 40 * completion_rate.num
                      + 30 * Max(0, 100 * total_tasks - 100 * overdue_tasks)
                      + 20 * total_tasks * Min(100, total_tasks * 10)
                      + 10 * total_tasks * Min(100, in_progress_tasks * 25)
             drift == 40 * completion_rate.err
                      - (IF overdue_tasks < total_tasks
                         THEN 30 * NumericDivErr(overdue_tasks, total_tasks)
                         ELSE 0)
             half  == exact + 50 * total_tasks
             unit  == 100 * total_tasks
         IN  IF half % unit = 0 /\ drift < 0
             THEN (half \div unit) - 1
             ELSE half \div unit

\* COALESCE(extras->>'priority', 'medium')
sql_priority(row) == IF IsPresent(row.priority) THEN Get(row.priority) ELSE "medium"

\* lines 55-67: json_object_agg over the GROUP BY; NULL over no rows
sql_priority_counts(rows) ==
    LET keys == {sql_priority(r) : r \in DOMAIN rows}
    IN  IF keys = {} THEN Absent
        ELSE Some([k \in keys |->
                    CountWhere(rows, {r \in DOMAIN rows : sql_priority(r) = k})])

\* status != 'done' AND (extras->>'due_date')::timestamp < p_now
sql_overdue(row, p_now) ==
    /\ row.status # "done"
    /\ IsPresent(row.due)
    /\ Get(row.due) < p_now

\* lines 27-36 with the pending filter written as status != 'done'
sql_task_counts_pending_open(rows, p_now) ==
    [total_tasks |-> CountWhere(rows, {r \in DOMAIN rows : TRUE}),
     completed_tasks |-> CountWhere(rows, {r \in DOMAIN rows : r.status = "done"}),
     pending_tasks |-> CountWhere(rows, {r \in DOMAIN rows : r.status # "done"}),
     in_progress_tasks |-> CountWhere(rows, {r \in DOMAIN rows : r.status = "in-progress"}),
     overdue_tasks |-> CountWhere(rows, {r \in DOMAIN rows : sql_overdue(r, p_now)})]

\* lines 27-36
sql_task_counts(rows, p_now) ==
    [total_tasks |-> CountWhere(rows, {r \in DOMAIN rows : TRUE}),
     completed_tasks |-> CountWhere(rows, {r \in DOMAIN rows : r.status = "done"}),
     pending_tasks |-> CountWhere(rows, {r \in DOMAIN rows : r.status = "pending"}),
     in_progress_tasks |-> CountWhere(rows, {r \in DOMAIN rows : r.status = "in-progress"}),
     overdue_tasks |-> CountWhere(rows, {r \in DOMAIN rows : sql_overdue(r, p_now)})]

TagLimit == 20

\* lines 73-78: the tags of the rows that have a tags list
sql_tags(rows) ==
    UNION {Range(Get(r.tags)) : r \in {x \in DOMAIN rows : IsPresent(x.tags)}}

\* lines 73-78: COUNT( * ) of a tag over the unnested tags lists
sql_tag_count(rows, tag) ==
    SumCopies([r \in {x \in DOMAIN rows : IsPresent(x.tags)} |->
                 rows[r] * Occurrences(Get(r.tags), tag)],
              {x \in DOMAIN rows : IsPresent(x.tags)})

\* lines 79-80 with ORDER BY COUNT( * ) ASC
sql_top_tags_asc(rows) ==
    LET all == sql_tags(rows)
    IN  IF Cardinality(all) <= TagLimit THEN {all}
        ELSE LET v == CHOOSE c \in {sql_tag_count(rows, t) : t \in all} :
                        /\ Cardinality({t \in all : sql_tag_count(rows, t) < c}) < TagLimit
                        /\ Cardinality({t \in all : sql_tag_count(rows, t) <= c}) >= TagLimit
                 below == {t \in all : sql_tag_count(rows, t) < v}
                 ties == {t \in all : sql_tag_count(rows, t) = v}
             IN  {below \cup K : K \in KSubsets(ties, TagLimit - Cardinality(below))}

\* lines 79-80: ORDER BY COUNT( * ) DESC LIMIT 20.  The order among tags of
\* equal count is not fixed by the query: every set of tags the first 20
\* rows can be
sql_top_tags(rows) ==
    LET all == sql_tags(rows)
    IN  IF Cardinality(all) <= TagLimit THEN {all}
        ELSE LET v == CHOOSE c \in {sql_tag_count(rows, t) : t \in all} :
                        /\ Cardinality({t \in all : sql_tag_count(rows, t) > c}) < TagLimit
                        /\ Cardinality({t \in all : sql_tag_count(rows, t) >= c}) >= TagLimit
                 above == {t \in all : sql_tag_count(rows, t) > v}
                 ties == {t \in all : sql_tag_count(rows, t) = v}
             IN  {above \cup K : K \in KSubsets(ties, TagLimit - Cardinality(above))}

\* lines 69-81: the values tag_counts can get; json_object_agg of no row is
\* NULL
sql_tag_counts(rows) ==
    {IF kept = {} THEN Absent
     ELSE Some([t \in kept |-> sql_tag_count(rows, t)]) :
        kept \in sql_top_tags(rows)}

\* line 98: CURRENT_DATE - INTERVAL 'n months', the day of the month cut
\* down to the last day of the month arrived at
sql_minus_months(date, n) ==
    LET months == date.year * 12 + (date.month - 1) - n
        y == months \div 12
        m == (months % 12) + 1
    IN  Date(y, m, Min(date.day, DaysInMonth(y, m)))

\* line 93: to_char(inserted_at, 'YYYY-MM')
to_char_YYYY_MM(date) == YearMonth(date)

TrendMonths == 6

\* lines 96-98
sql_trend_rows(rows, current_date) ==
    Where(rows, {r \in DOMAIN rows :
                   DateGeq(r.inserted_at, sql_minus_months(current_date, TrendMonths))})

\* lines 83-101: one entry for every month that has a row, NULL for no row
sql_monthly_trends(rows, current_date) ==
    LET recent == sql_trend_rows(rows, current_date)
        months == Ascending({to_char_YYYY_MM(r.inserted_at) : r \in DOMAIN recent})
    IN  IF months = <<>> THEN Absent
        ELSE Some([i \in DOMAIN months |->
               [month |-> months[i],
                created |-> CountWhere(recent, {r \in DOMAIN recent :
                               to_char_YYYY_MM(r.inserted_at) = months[i]}),
                completed |-> CountWhere(recent, {r \in DOMAIN recent :
                               /\ to_char_YYYY_MM(r.inserted_at) = months[i]
                               /\ r.status = "done"})]])

DeadlineLimit == 10

\* the rows of a bag as a sequence in ascending order of due date, each as
\* many times as the bag holds it.  Rows of equal due date come in an
\* order the query does not fix; the model takes one.
RECURSIVE OrderByDueDate(_)
OrderByDueDate(rows) ==
    IF DOMAIN rows = {} THEN <<>>
    ELSE LET first == CHOOSE r \in DOMAIN rows :
                        \A o \in DOMAIN rows : Get(r.due) <= Get(o.due)
         IN  <<first>> \o OrderByDueDate(rows (-) SetToBag({first}))

\* line 121 without the LIMIT
Unlimited(seq, n) == seq

\* lines 121 and 252: LIMIT n, .limit(n)
Limit(seq, n) == SubSeq(seq, 1, Min(n, Len(seq)))

\* lines 116-119
sql_upcoming(row, p_now, p_next_week) ==
    /\ row.status # "done"
    /\ IsPresent(row.due)
    /\ Get(row.due) >= p_now
    /\ Get(row.due) <= p_next_week

\* lines 105-110: taskId and title are left out, rows carry neither
sql_deadline(row) ==
    [dueDate |-> Get(row.due), priority |-> COALESCE(row.priority, "medium")]

\* lines 103-122: NULL for no row
sql_upcoming_deadlines(rows, p_now, p_next_week) ==
    LET ud == Limit(OrderByDueDate(
                      Where(rows, {r \in DOMAIN rows :
                                     sql_upcoming(r, p_now, p_next_week)})),
                    DeadlineLimit)
    IN  IF ud = <<>> THEN Absent
        ELSE Some([i \in DOMAIN ud |-> sql_deadline(ud[i])])

\* lines 33, 118-119: (extras->>'due_date')::timestamp raises an error for
\* a text that is no timestamp.  The cast is reached for every row of the
\* user that is not done; whether it is reached for a done row, behind
\* status != 'done' AND, is not fixed by the language.
sql_cast_raises(rows) ==
    \E r \in DOMAIN rows :
        /\ r.status # "done"
        /\ IsPresent(r.due)
        /\ Get(r.due) \in UnparseableDues

\* the reports the routine can return, none when it raises an error; they
\* differ in the tags kept among tags of equal count.  current_date is the
\* CURRENT_DATE the routine reads.
get_task_analytics(store, p_user_id, p_now, p_next_week, current_date) ==
    LET rows == Where(store, {r \in DOMAIN store : r.owner = p_user_id})
        counts == sql_task_counts(rows, p_now)
        total_tasks == counts.total_tasks
        completed_tasks == counts.completed_tasks
        pending_tasks == counts.pending_tasks
        in_progress_tasks == counts.in_progress_tasks
        overdue_tasks == counts.overdue_tasks
        completion_rate == sql_completion_rate(total_tasks, completed_tasks)
        productivity_score ==
            sql_productivity_score(total_tasks, completion_rate,
                                   overdue_tasks, in_progress_tasks)
        priority_counts == sql_priority_counts(rows)
        monthly_trends == sql_monthly_trends(rows, current_date)
        upcoming_deadlines == sql_upcoming_deadlines(rows, p_now, p_next_week)
    IN  IF sql_cast_raises(rows) THEN {} ELSE
        {[totalTasks |-> total_tasks,
         completedTasks |-> completed_tasks,
         pendingTasks |-> pending_tasks,
         inProgressTasks |-> in_progress_tasks,
         completionRate |-> completion_rate,
         averageCompletionTime |-> 24,
         overdueTasks |-> overdue_tasks,
         tasksByPriority |-> COALESCE(priority_counts, NoKeys),
         tasksByTag |-> COALESCE(tag_counts, NoKeys),
         productivityScore |-> productivity_score,
         monthlyTrends |-> COALESCE(monthly_trends, <<>>),
         upcomingDeadlines |-> COALESCE(upcoming_deadlines, <<>>)] :
            tag_counts \in sql_tag_counts(rows)}

(***************************************************************************)
(* The fallback strategy of the handler (index.ts:149-262).                *)
(*                                                                         *)
(* A number that comes out of a division is carried as the exact ratio     *)
(* [num, den]; the doubles' rounding error is not carried.  It shows only  *)
(* where Math.round is handed a sum whose exact value ends in .5: there    *)
(* the accumulated error of the double operations decides the direction,   *)
(* and both directions are outcomes (3 tasks, 2 overdue, 1 in progress     *)
(* gives 18.5 and rounds to 19; 6 tasks, 5 overdue, 1 in progress gives    *)
(* 19.499999999999996 and rounds to 19 where the exact sum is 19.5).       *)
(***************************************************************************)
SampleLimit == 1000

\* line 164 with lte in place of lt
js_overdue_lte(row, t) ==
    /\ row.status # "done"
    /\ IsPresent(row.due)
    /\ Get(row.due) <= t

\* line 164: .neq("status", "done").lt("extras->due_date", now)
js_overdue(row, t) ==
    /\ row.status # "done"
    /\ IsPresent(row.due)
    /\ Get(row.due) < t

\* lines 160-164: the five count queries
FallbackCounts(store, userId, t) ==
    LET rows == Where(store, {r \in DOMAIN store : r.owner = userId})
    IN  [totalTasks |-> CountWhere(rows, {r \in DOMAIN rows : TRUE}),
         completedTasks |-> CountWhere(rows, {r \in DOMAIN rows : r.status = "done"}),
         pendingTasks |-> CountWhere(rows, {r \in DOMAIN rows : r.status = "pending"}),
         inProgressTasks |-> CountWhere(rows, {r \in DOMAIN rows : r.status = "in-progress"}),
         overdueTasks |-> CountWhere(rows, {r \in DOMAIN rows : js_overdue(r, t)})]

\* the queries of the fallback strategy: the counts of lines 160-164, the
\* sample of lines 193-198 and the deadlines of lines 244-252
CountQueries ==
    {"totalTasks", "completedTasks", "pendingTasks", "inProgressTasks",
     "overdueTasks"}
FallbackQueries == CountQueries \cup {"recentTasks", "upcomingTasks"}

\* lines 153-165: the {count} of each answer, null for a query that failed;
\* the error of the answer is not read
CountResults(store, userId, t, failed) ==
    LET answers == FallbackCounts(store, userId, t)
    IN  [q \in CountQueries |->
           IF q \in failed THEN Absent ELSE Some(answers[q])]

\* lines 168-174: count || 0
OrZero(count) == IF IsPresent(count) /\ Get(count) # 0 THEN Get(count) ELSE 0

\* line 172 without the totalTasks > 0 test
js_completionRate_unguarded(totalTasks, completedTasks) ==
    [num |-> completedTasks * 100, den |-> totalTasks]

\* line 172
js_completionRate(totalTasks, completedTasks) ==
    IF totalTasks > 0
    THEN [num |-> completedTasks * 100, den |-> totalTasks]
    ELSE [num |-> 0, den |-> 1]

\* lines 167-180
InitialAnalytics(counts) ==
    [totalTasks |-> counts.totalTasks,
     completedTasks |-> counts.completedTasks,
     pendingTasks |-> counts.pendingTasks,
     inProgressTasks |-> counts.inProgressTasks,
     completionRate |-> js_completionRate(counts.totalTasks, counts.completedTasks),
     averageCompletionTime |-> 24,
     overdueTasks |-> counts.overdueTasks,
     tasksByPriority |-> [high |-> 0, medium |-> 0, low |-> 0],
     tasksByTag |-> NoKeys,
     productivityScore |-> 0,
     monthlyTrends |-> <<>>,
     upcomingDeadlines |-> <<>>]

\* lines 182-190: the values Math.round(score) can take
js_productivityScore(a) ==
    IF a.totalTasks > 0
    THEN LET exact == 40 * a.completionRate.num
                      + 30 * Max(0, 100 * a.totalTasks - 100 * a.overdueTasks)
                      + 20 * a.totalTasks * Min(100, a.totalTasks * 10)
                      + 10 * a.totalTasks * Min(100, a.inProgressTasks * 25)
             half == exact + 50 * a.totalTasks
             unit == 100 * a.totalTasks
         IN  IF half % unit = 0
             THEN {(half \div unit) - 1, half \div unit}
             ELSE {half \div unit}
    ELSE {0}

\* lines 193-198: at most SampleLimit of the user's rows
RecentTasks(store, userId) ==
    LET rows == Where(store, {r \in DOMAIN store : r.owner = userId})
        n == Min(SampleLimit, BagCardinality(rows))
    IN  {sample \in SubBag(rows) : BagCardinality(sample) = n}

\* line 203
js_priority(task) == IF IsPresent(task.priority) THEN Get(task.priority) ELSE "medium"

\* line 204: ++ on a key of the object, NaN on a key it does not have
Increment(buckets, key) ==
    IF key \in DOMAIN buckets
    THEN [buckets EXCEPT ![key] = IF @ = NaN THEN NaN ELSE @ + 1]
    ELSE [k \in DOMAIN buckets \cup {key} |->
            IF k = key THEN NaN ELSE buckets[k]]

\* lines 202-205
RECURSIVE CountPriorities(_, _)
CountPriorities(recentTasks, buckets) ==
    IF DOMAIN recentTasks = {} THEN buckets
    ELSE LET task == CHOOSE x \in DOMAIN recentTasks : TRUE
         IN  CountPriorities(recentTasks (-) SetToBag({task}),
                             Increment(buckets, js_priority(task)))

\* line 209
js_tags(task) == COALESCE(task.tags, <<>>)

\* lines 208-213: one more for every occurrence of a tag in the sample
js_tasksByTag(recentTasks) ==
    [tag \in UNION {Range(js_tags(task)) : task \in DOMAIN recentTasks} |->
       SumCopies([task \in DOMAIN recentTasks |->
                    recentTasks[task] * Occurrences(js_tags(task), tag)],
                 DOMAIN recentTasks)]

\* Date.prototype.getMonth: months 0..11
js_getMonth(date) == date.month - 1

\* Date.prototype.setMonth: a month outside 0..11 moves the year; a day
\* the month arrived at does not have runs over into the month after it
js_setMonth(date, month) ==
    LET y == date.year + (month \div 12)
        m == (month % 12) + 1
        days == DaysInMonth(y, m)
    IN  IF date.day <= days THEN Date(y, m, date.day)
        ELSE IF m < 12 THEN Date(y, m + 1, date.day - days)
        ELSE Date(y + 1, 1, date.day - days)

\* toISOString().slice(0, 7) and inserted_at.slice(0, 7)
slice_0_7(date) == YearMonth(date)

\* lines 217-221: new Date() moved back by i = 5, ..., 0 months
last6Months(date) ==
    [k \in 1..TrendMonths |->
       slice_0_7(js_setMonth(date, js_getMonth(date) - (TrendMonths - k)))]

\* the keys of a Map after set() of each element in turn
RECURSIVE InsertionOrder(_)
InsertionOrder(seq) ==
    IF seq = <<>> THEN <<>>
    ELSE LET before == InsertionOrder(SubSeq(seq, 1, Len(seq) - 1))
             last == seq[Len(seq)]
         IN  IF last \in Range(before) THEN before ELSE Append(before, last)

\* lines 216-240
js_monthlyTrends(recentTasks, date) ==
    LET months == InsertionOrder(last6Months(date))
    IN  [i \in DOMAIN months |->
           [month |-> months[i],
            created |-> CountWhere(recentTasks, {task \in DOMAIN recentTasks :
                           slice_0_7(task.inserted_at) = months[i]}),
            completed |-> CountWhere(recentTasks, {task \in DOMAIN recentTasks :
                           /\ slice_0_7(task.inserted_at) = months[i]
                           /\ task.status = "done"})]]

\* lines 200-241; date is the new Date() of line 218
WithSample(a, recentTasks, date) ==
    [a EXCEPT !.tasksByPriority = CountPriorities(recentTasks, @),
              !.tasksByTag = js_tasksByTag(recentTasks),
              !.monthlyTrends = js_monthlyTrends(recentTasks, date)]

WeekMs == 604800000

\* lines 137-139: seven days after the instant read
nextWeekOf(t) == t + WeekMs

\* lines 248-250
js_upcoming(row, t, nextWeekISO) ==
    /\ row.status # "done"
    /\ IsPresent(row.due)
    /\ Get(row.due) >= t
    /\ Get(row.due) < nextWeekISO

\* lines 254-259: taskId and title are left out, rows carry neither
js_deadline(task) == [dueDate |-> Get(task.due), priority |-> js_priority(task)]

\* lines 244-252 without .eq("user_id", user.id)
js_upcomingTasks_of_anyone(store, userId, t, nextWeekISO) ==
    Limit(OrderByDueDate(
            Where(store, {r \in DOMAIN store : js_upcoming(r, t, nextWeekISO)})),
          DeadlineLimit)

\* lines 244-252
js_upcomingTasks(store, userId, t, nextWeekISO) ==
    Limit(OrderByDueDate(
            Where(store, {r \in DOMAIN store :
                            r.owner = userId /\ js_upcoming(r, t, nextWeekISO)})),
          DeadlineLimit)

\* lines 243-259
WithDeadlines(a, upcomingTasks) ==
    [a EXCEPT !.upcomingDeadlines =
                [i \in DOMAIN upcomingTasks |-> js_deadline(upcomingTasks[i])]]

(***************************************************************************)
(* The handler (index.ts:78-289).                                          *)
(***************************************************************************)
Methods == {"OPTIONS", "GET", "POST"}
WellFormedIds == {"u1", "u2"}
Sessions == {Absent, Some("u1"), Some("not-a-uuid")}

\* lines 42-45 with a test that every id passes
isValidUUID_any(uuid) == TRUE

\* lines 42-45
isValidUUID(uuid) == uuid \in WellFormedIds

windowMs == 60000
maxRequests == 5
CleanupSize == 10000

\* line 53 with time >= now - windowMs
Filter_inclusive(requests, cutoff) ==
    SelectSeq(requests, LAMBDA time : time >= cutoff)

\* lines 53 and 66, security.ts:135: filter(time => time > cutoff)
Filter(requests, cutoff) == SelectSeq(requests, LAMBDA time : time > cutoff)

\* lines 52-53
recentRequestsOf(store, userId, t) ==
    Filter(IF userId \in DOMAIN store THEN store[userId] ELSE <<>>, t - windowMs)

\* lines 47-76: the value returned
rateLimitCheck(store, userId, t) ==
    ~ (Len(recentRequestsOf(store, userId, t)) >= maxRequests)

\* RateLimiter.getRetryAfter of the client utilities (security.ts:149-156),
\* in seconds; the handler has no call of it
getRetryAfter(requests, identifier, t) ==
    LET userRequests == IF identifier \in DOMAIN requests
                        THEN requests[identifier] ELSE <<>>
        oldestRequest == CHOOSE r \in Range(userRequests) :
                           \A o \in Range(userRequests) : r <= o
        retryAfter == oldestRequest + windowMs - t
    IN  IF Len(userRequests) = 0 THEN 0
        ELSE Max(0, (retryAfter + 999) \div 1000)

\* RateLimiter.isAllowed (security.ts:127-147) of the limiter constructed
\* with lim: the value returned and the Map afterwards
isAllowed(lim, reqs, identifier, t) ==
    LET windowStart == t - lim.windowMs
        userRequests == Filter(IF identifier \in DOMAIN reqs
                               THEN reqs[identifier] ELSE <<>>, windowStart)
    IN  IF Len(userRequests) >= lim.maxRequests
        THEN [allowed |-> FALSE, requests |-> reqs]
        ELSE [allowed |-> TRUE,
              requests |-> [k \in DOMAIN reqs \cup {identifier} |->
                              IF k = identifier THEN Append(userRequests, t)
                              ELSE reqs[k]]]

\* lines 59-60 with the list of the user replaced by the one timestamp
rateLimitRecord_overwrite(store, userId, t) ==
    [k \in DOMAIN store \cup {userId} |->
       IF k = userId THEN <<t>> ELSE store[k]]

\* lines 59-60 with the timestamp pushed to the list as stored
rateLimitRecord_unfiltered(store, userId, t) ==
    [k \in DOMAIN store \cup {userId} |->
       IF k = userId
       THEN Append(IF userId \in DOMAIN store THEN store[userId] ELSE <<>>, t)
       ELSE store[k]]

\* lines 59-73: the store after a check that returned true
rateLimitRecord(store, userId, t) ==
    LET set == [k \in DOMAIN store \cup {userId} |->
                   IF k = userId
                   THEN Append(recentRequestsOf(store, userId, t), t)
                   ELSE store[k]]
        cutoff == t - windowMs * 2
        active == {k \in DOMAIN set : Len(Filter(set[k], cutoff)) # 0}
    IN  IF Cardinality(DOMAIN set) > CleanupSize
        THEN [k \in active |-> Filter(set[k], cutoff)]
        ELSE set

\* lines 4-8: the names of the headers
corsHeaders == {"Access-Control-Allow-Origin", "Access-Control-Allow-Headers"}

\* new Response(JSON.stringify(body), {status, headers: {...corsHeaders,
\* "Content-Type": "application/json"}})
Response(status, body) ==
    [kind |-> "Response", status |-> status,
     headers |-> corsHeaders \cup {"Content-Type"}, body |-> body]
ErrorBody(message) == [error |-> message]

\* lines 265-278
DefaultReport ==
    [totalTasks |-> 0,
     completedTasks |-> 0,
     pendingTasks |-> 0,
     inProgressTasks |-> 0,
     completionRate |-> [num |-> 0, den |-> 1],
     averageCompletionTime |-> 0,
     overdueTasks |-> 0,
     tasksByPriority |-> [high |-> 0, medium |-> 0, low |-> 0],
     tasksByTag |-> NoKeys,
     productivityScore |-> 0,
     monthlyTrends |-> <<>>,
     upcomingDeadlines |-> <<>>]

\* taskCounts[0]: the property "0" of the JSON object the routine returned
ElementZero(data) == IF "0" \in DOMAIN data THEN Some(data["0"]) ELSE Absent

Reset ==
    /\ method' = Absent
    /\ user' = Absent
    /\ now' = 0
    /\ countsError' = FALSE
    /\ taskCounts' = Absent
    /\ analytics' = Absent
    /\ returned' = Absent
    /\ error' = Absent

Return(value) ==
    /\ returned' = Some(value)
    /\ pc' = "done"

\* new Error(message)
Error(message) == [message |-> message]

\* lines 283-288: the catch clause answers with the message of the error
Catch(e) == Response(500, ErrorBody(e.message))

\* a throw inside the try block of lines 92-288
Throw(e) ==
    /\ error' = Some(e)
    /\ Return(Catch(e))

\* lines 80-90
Receive ==
    /\ pc = "idle"
    /\ \E m \in Methods :
         /\ method' = Some(m)
         /\ IF m = "OPTIONS"
            THEN Return([kind |-> "Response", status |-> 200,
                         headers |-> corsHeaders, body |-> [text |-> "ok"]])
            ELSE IF m # "GET"
                 THEN Return(Response(405, ErrorBody("Method not allowed")))
                 ELSE pc' = "env" /\ returned' = returned
    /\ UNCHANGED <<tasks, clock, today, rateLimitStore, user, now, countsError,
                   taskCounts, analytics, error, scoreVars, otherVars>>

\* lines 93-99: the variables are set, or an error is thrown and caught
Environment ==
    /\ pc = "env"
    /\ \E present \in BOOLEAN :
         IF present THEN pc' = "auth" /\ UNCHANGED <<returned, error>>
         ELSE Throw(Error("Missing required environment variables"))
    /\ UNCHANGED <<method, tasks, clock, today, rateLimitStore, user, now, countsError,
                   taskCounts, analytics, scoreVars, otherVars>>

\* lines 107-117
Authenticate ==
    /\ pc = "auth"
    /\ \E s \in Sessions :
         IF IsPresent(s)
         THEN user' = s /\ pc' = "validate" /\ returned' = returned
         ELSE user' = user /\ Return(Response(401, ErrorBody("Unauthorized")))
    /\ UNCHANGED <<method, tasks, clock, today, rateLimitStore, now, countsError,
                   taskCounts, analytics, error, scoreVars, otherVars>>

\* lines 119-125
Validate ==
    /\ pc = "validate"
    /\ IF isValidUUID(Get(user))
       THEN pc' = "rateLimit" /\ returned' = returned
       ELSE Return(Response(400, ErrorBody("Invalid user ID")))
    /\ UNCHANGED <<method, tasks, clock, today, rateLimitStore, user, now, countsError,
                   taskCounts, analytics, error, scoreVars, otherVars>>

\* lines 127-133
RateLimit ==
    /\ pc = "rateLimit"
    /\ IF rateLimitCheck(rateLimitStore, Get(user), clock)
       THEN /\ rateLimitStore' = rateLimitRecord(rateLimitStore, Get(user), clock)
            /\ pc' = "rpc"
            /\ returned' = returned
       ELSE /\ rateLimitStore' = rateLimitStore
            /\ Return(Response(429, ErrorBody("Rate limit exceeded")))
    /\ UNCHANGED <<method, tasks, clock, today, user, now, countsError, taskCounts,
                   analytics, error, scoreVars, otherVars>>

\* lines 135-149: the rpc answers with the routine's JSON or with an error
CallRpc ==
    /\ pc = "rpc"
    /\ now' = clock
    /\ \/ /\ countsError' = TRUE
          /\ taskCounts' = Absent
          /\ pc' = "counts"
       \/ /\ countsError' = FALSE
          /\ \E report \in get_task_analytics(tasks, Get(user), clock,
                                               nextWeekOf(clock), today) :
               taskCounts' = Some(report)
          /\ pc' = "result"
    /\ UNCHANGED <<method, tasks, clock, today, rateLimitStore, user, analytics, returned,
                   error, scoreVars, otherVars>>

\* lines 153-190
FallbackCountQueries ==
    /\ pc = "counts"
    /\ LET results == CountResults(tasks, Get(user), now, failing)
           a == InitialAnalytics([q \in CountQueries |-> OrZero(results[q])])
       IN  \E score \in js_productivityScore(a) :
             analytics' = Some([a EXCEPT !.productivityScore = score])
    /\ pc' = "sample"
    /\ UNCHANGED <<method, tasks, clock, today, rateLimitStore, user, now, countsError,
                   taskCounts, returned, error, scoreVars, otherVars>>

\* lines 192-241
FallbackSample ==
    /\ pc = "sample"
    /\ IF "recentTasks" \in failing
       THEN analytics' = analytics
       ELSE \E recentTasks \in RecentTasks(tasks, Get(user)) :
              analytics' = Some(WithSample(Get(analytics), recentTasks, today))
    /\ pc' = "return"
    /\ UNCHANGED <<method, tasks, clock, today, rateLimitStore, user, now, countsError,
                   taskCounts, returned, error, scoreVars, otherVars>>

\* lines 243-261: the object itself is returned, not a Response
FallbackReturn ==
    /\ pc = "return"
    /\ analytics' = Some(WithDeadlines(Get(analytics),
                           IF "upcomingTasks" \in failing THEN <<>>
                           ELSE js_upcomingTasks(tasks, Get(user), now,
                                                 nextWeekOf(now))))
    /\ Return([kind |-> "Object", value |-> Get(analytics')])
    /\ UNCHANGED <<method, tasks, clock, today, rateLimitStore, user, now, countsError,
                   taskCounts, error, scoreVars, otherVars>>

\* lines 264-282
RpcResult ==
    /\ pc = "result"
    /\ analytics' = Some(COALESCE(ElementZero(Get(taskCounts)), DefaultReport))
    /\ Return(Response(200, Get(analytics')))
    /\ UNCHANGED <<method, tasks, clock, today, rateLimitStore, user, now, countsError,
                   taskCounts, error, scoreVars, otherVars>>

\* the next request
Finish ==
    /\ pc = "done"
    /\ pc' = "idle"
    /\ Reset
    /\ UNCHANGED <<tasks, clock, today, rateLimitStore, scoreVars, otherVars>>

(***************************************************************************)
(* The environment of the handler: the owners' writes to the tasks table   *)
(* and the passing of time.                                                *)
(***************************************************************************)
AddTask ==
    /\ pc = "idle"
    /\ BagCardinality(tasks) < MaxTasks
    /\ \E row \in TaskRows : tasks' = AddRow(tasks, row)
    /\ UNCHANGED <<clock, today, rateLimitStore, handlerVars, scoreVars, otherVars>>

DeleteTask ==
    /\ pc = "idle"
    /\ \E row \in DOMAIN tasks : tasks' = tasks (-) SetToBag({row})
    /\ UNCHANGED <<clock, today, rateLimitStore, handlerVars, scoreVars, otherVars>>

Tick ==
    /\ pc = "idle"
    /\ clock < StartTime + MaxTicks * TickMs
    /\ clock' = clock + TickMs
    /\ UNCHANGED <<tasks, today, rateLimitStore, handlerVars, scoreVars, otherVars>>

NoScore == [sql |-> Absent, js |-> Absent]

\* no fallback query fails, no request is in flight beside the handler's,
\* and the client's limiter and cache are as constructed
OthersIdle ==
    /\ failing = {}
    /\ answered = NoKeys
    /\ inflight = <<>>
    /\ admitted = [u \in {} |-> <<>>]
    /\ limiterRequests = [k \in {} |-> <<>>]
    /\ limiter = [maxRequests |-> 10, windowMs |-> 60000]
    /\ allowed = Absent
    /\ cache = <<>>
    /\ maxSize = 100
    /\ lastSet = Absent
    /\ served = 0
    /\ fetched = Absent

Init ==
    /\ tasks = EmptyBag
    /\ clock = StartTime
    /\ today = StartDate
    /\ rateLimitStore = [k \in {} |-> <<>>]
    /\ pc = "idle"
    /\ method = Absent
    /\ user = Absent
    /\ now = 0
    /\ countsError = FALSE
    /\ taskCounts = Absent
    /\ analytics = Absent
    /\ returned = Absent
    /\ error = Absent
    /\ scoreIn = [total |-> 0, completed |-> 0, overdue |-> 0, inProgress |-> 0]
    /\ scoreOut = NoScore
    /\ OthersIdle

Next ==
    \/ Receive
    \/ Environment
    \/ Authenticate
    \/ Validate
    \/ RateLimit
    \/ CallRpc
    \/ FallbackCountQueries
    \/ FallbackSample
    \/ FallbackReturn
    \/ RpcResult
    \/ Finish
    \/ AddTask
    \/ DeleteTask
    \/ Tick

Spec == Init /\ [][Next]_vars

(***************************************************************************)
(* AggSpec: both strategies over one snapshot of the table, for the same   *)
(* user and the same instant.                                              *)
(***************************************************************************)
AggInit ==
    /\ tasks \in BagsUpTo(MaxAggTasks, TaskRows)
    /\ clock = StartTime
    /\ today = StartDate
    /\ rateLimitStore = [k \in {} |-> <<>>]
    /\ pc = "aggregate"
    /\ method = Some("GET")
    /\ user = Some("u1")
    /\ now = StartTime
    /\ countsError = FALSE
    /\ taskCounts = Absent
    /\ analytics = Absent
    /\ returned = Absent
    /\ error = Absent
    /\ scoreIn = [total |-> 0, completed |-> 0, overdue |-> 0, inProgress |-> 0]
    /\ scoreOut = NoScore
    /\ OthersIdle

BulkStrategy ==
    /\ pc = "aggregate"
    /\ ~ IsPresent(taskCounts)
    /\ \E report \in get_task_analytics(tasks, Get(user), now,
                                         nextWeekOf(now), today) :
         taskCounts' = Some(report)
    /\ UNCHANGED <<method, tasks, clock, today, rateLimitStore, pc, user, now, countsError,
                   analytics, returned, error, scoreVars, otherVars>>

FallbackStrategy ==
    /\ pc = "aggregate"
    /\ ~ IsPresent(analytics)
    /\ LET a == InitialAnalytics(FallbackCounts(tasks, Get(user), now))
       IN  \E score \in js_productivityScore(a) :
           \E recentTasks \in RecentTasks(tasks, Get(user)) :
             analytics' =
               Some(WithDeadlines(
                      WithSample([a EXCEPT !.productivityScore = score],
                                 recentTasks, today),
                      js_upcomingTasks(tasks, Get(user), now, nextWeekOf(now))))
    /\ UNCHANGED <<method, tasks, clock, today, rateLimitStore, pc, user, now, countsError,
                   taskCounts, returned, error, scoreVars, otherVars>>

AggNext == BulkStrategy \/ FallbackStrategy

AggSpec == AggInit /\ [][AggNext]_vars

(***************************************************************************)
(* FaultSpec: the fallback strategy of a request whose rpc answered with   *)
(* an error, over one snapshot of the table, while the database fails the  *)
(* queries in failing.                                                     *)
(***************************************************************************)
FaultRows ==
    [owner : {"u1"}, status : Statuses, priority : {Some("high")},
     due : {Some(0), Some(2 * StartTime)}, inserted_at : {StartDate},
     tags : {Some(<<"work">>)}]

FaultInit ==
    /\ tasks \in BagsUpTo(MaxFaultTasks, FaultRows)
    /\ clock = StartTime
    /\ today = StartDate
    /\ rateLimitStore = [k \in {"u1"} |-> <<StartTime>>]
    /\ pc = "counts"
    /\ method = Some("GET")
    /\ user = Some("u1")
    /\ now = StartTime
    /\ countsError = TRUE
    /\ taskCounts = Absent
    /\ analytics = Absent
    /\ returned = Absent
    /\ error = Absent
    /\ scoreIn = [total |-> 0, completed |-> 0, overdue |-> 0, inProgress |-> 0]
    /\ scoreOut = NoScore
    /\ failing \in SUBSET FallbackQueries
    /\ answered = NoKeys
    /\ inflight = <<>>
    /\ admitted = [u \in {} |-> <<>>]
    /\ limiterRequests = [k \in {} |-> <<>>]
    /\ limiter = [maxRequests |-> 10, windowMs |-> 60000]
    /\ allowed = Absent
    /\ cache = <<>>
    /\ maxSize = 100
    /\ lastSet = Absent
    /\ served = 0
    /\ fetched = Absent

FaultNext == FallbackCountQueries \/ FallbackSample \/ FallbackReturn

FaultSpec == FaultInit /\ [][FaultNext]_vars

(***************************************************************************)
(* ConcSpec: requests of two identities handled concurrently by one        *)
(* process.  A request awaits auth.getUser() (index.ts:111); what follows  *)
(* up to the rpc call (lines 112-147) has no await and runs as one step,   *)
(* in whatever order the answers of getUser arrive.                        *)
(***************************************************************************)
ConcIdentities == {"u1", "u2"}

\* the handler's own request is not running
HandlerUnused(position) ==
    /\ pc = position
    /\ method = Absent
    /\ user = Absent
    /\ now = 0
    /\ countsError = FALSE
    /\ taskCounts = Absent
    /\ analytics = Absent
    /\ returned = Absent
    /\ error = Absent
    /\ scoreIn = [total |-> 0, completed |-> 0, overdue |-> 0, inProgress |-> 0]
    /\ scoreOut = NoScore

ConcInit ==
    /\ tasks = EmptyBag
    /\ clock = StartTime
    /\ today = StartDate
    /\ rateLimitStore = [k \in {} |-> <<>>]
    /\ HandlerUnused("concurrent")
    /\ failing = {}
    /\ answered = NoKeys
    /\ inflight = <<>>
    /\ admitted = [u \in ConcIdentities |-> <<>>]
    /\ limiterRequests = [k \in {} |-> <<>>]
    /\ limiter = [maxRequests |-> 10, windowMs |-> 60000]
    /\ allowed = Absent
    /\ cache = <<>>
    /\ maxSize = 100
    /\ lastSet = Absent
    /\ served = 0
    /\ fetched = Absent

\* all checks that returned true so far
Admissions == SumCopies([u \in ConcIdentities |-> Len(admitted[u])], ConcIdentities)

\* lines 78-111: a GET request arrives and awaits auth.getUser()
Arrive ==
    /\ Len(inflight) < MaxInflight
    /\ Admissions + Len(inflight) < MaxConcRequests
    /\ \E u \in ConcIdentities :
         inflight' = Append(inflight, [user |-> u, pc |-> "auth"])
    /\ UNCHANGED <<tasks, clock, today, rateLimitStore, handlerVars, scoreVars,
                   failing, answered, admitted, limiterVars, cacheVars>>

\* the sequence without its i-th element
Remove(seq, i) == SubSeq(seq, 1, i - 1) \o SubSeq(seq, i + 1, Len(seq))

\* lines 112-147: getUser has answered request i; validation, the rate
\* limit check and, when it passes, the recording of Date.now() and the
\* rpc call, which the request then awaits
Check(i) ==
    /\ inflight[i].pc = "auth"
    /\ LET userId == inflight[i].user
       IN  IF isValidUUID(userId) /\ rateLimitCheck(rateLimitStore, userId, clock)
           THEN /\ rateLimitStore' = rateLimitRecord(rateLimitStore, userId, clock)
                /\ admitted' = [admitted EXCEPT ![userId] = Append(@, clock)]
                /\ inflight' = [inflight EXCEPT ![i].pc = "rpc"]
           ELSE /\ UNCHANGED <<rateLimitStore, admitted>>
                /\ inflight' = [inflight EXCEPT ![i].pc = "rejected"]
    /\ UNCHANGED <<tasks, clock, today, handlerVars, scoreVars, failing,
                   answered, limiterVars, cacheVars>>

\* the response of request i is sent: the 429 of lines 129-132, or what
\* follows the rpc
Respond(i) ==
    /\ inflight[i].pc # "auth"
    /\ inflight' = Remove(inflight, i)
    /\ UNCHANGED <<tasks, clock, today, rateLimitStore, handlerVars, scoreVars,
                   failing, answered, admitted, limiterVars, cacheVars>>

ConcTick ==
    /\ clock < StartTime + MaxConcTicks * TickMs
    /\ clock' = clock + TickMs
    /\ UNCHANGED <<tasks, today, rateLimitStore, handlerVars, scoreVars,
                   otherVars>>

ConcNext ==
    \/ Arrive
    \/ \E i \in DOMAIN inflight : Check(i)
    \/ \E i \in DOMAIN inflight : Respond(i)
    \/ ConcTick

ConcSpec == ConcInit /\ [][ConcNext]_vars

(***************************************************************************)
(* MalformedSpec: a request that has passed the rate limit, over snapshots *)
(* of rows some of which have a due date that is no timestamp.             *)
(***************************************************************************)
MalformedRows ==
    [owner : {"u1"}, status : {"pending", "done"}, priority : {Some("high")},
     due : {Some(d) : d \in UnparseableDues}, inserted_at : {StartDate},
     tags : {NoTags}]
    \cup
    [owner : {"u1"}, status : {"pending"}, priority : {Some("low")},
     due : {Absent, Some(0)}, inserted_at : {StartDate}, tags : {NoTags}]

MalformedInit ==
    /\ tasks \in BagsUpTo(MaxMalformedTasks, MalformedRows)
    /\ clock = StartTime
    /\ today = StartDate
    /\ rateLimitStore = [k \in {"u1"} |-> <<StartTime>>]
    /\ pc = "rpc"
    /\ method = Some("GET")
    /\ user = Some("u1")
    /\ now = 0
    /\ countsError = FALSE
    /\ taskCounts = Absent
    /\ analytics = Absent
    /\ returned = Absent
    /\ error = Absent
    /\ scoreIn = [total |-> 0, completed |-> 0, overdue |-> 0, inProgress |-> 0]
    /\ scoreOut = NoScore
    /\ OthersIdle

MalformedNext ==
    \/ CallRpc
    \/ RpcResult
    \/ FallbackCountQueries
    \/ FallbackSample
    \/ FallbackReturn

MalformedSpec == MalformedInit /\ [][MalformedNext]_vars

(***************************************************************************)
(* Cache (src/utils/security.ts:217-304).  The Map is carried as the       *)
(* sequence of its items in insertion order, each with its key.            *)
(***************************************************************************)
DefaultTtl == 300000

\* lines 254, 270, 290: the item has expired at time t
Expired(item, t) == t - item.timestamp > item.ttl

\* Map.prototype.has
MapHas(map, key) == \E i \in DOMAIN map : map[i].key = key

\* Map.prototype.delete
MapDelete(map, key) == SelectSeq(map, LAMBDA item : item.key # key)

\* Map.prototype.set: a key the map has keeps its place
MapSet(map, item) ==
    IF MapHas(map, item.key)
    THEN [i \in DOMAIN map |-> IF map[i].key = item.key THEN item ELSE map[i]]
    ELSE Append(map, item)

\* the keys of a map in insertion order
MapKeys(map) == [i \in DOMAIN map |-> map[i].key]

\* lines 286-294
cleanup(map, t) == SelectSeq(map, LAMBDA item : ~ Expired(item, t))

\* line 234: a key passes if (firstKey) unless it is the empty string
Truthy(key) == key # ""

\* lines 225-244 with the first key deleted whatever it is
Cache_set_unguarded(map, size, key, data, ttl, t) ==
    LET cleaned == IF Len(map) >= size THEN cleanup(map, t) ELSE map
        room == IF Len(cleaned) >= size /\ cleaned # <<>>
                THEN MapDelete(cleaned, cleaned[1].key)
                ELSE cleaned
    IN  MapSet(room, [key |-> key, data |-> data, timestamp |-> t, ttl |-> ttl])

\* lines 225-244
Cache_set(map, size, key, data, ttl, t) ==
    LET cleaned == IF Len(map) >= size THEN cleanup(map, t) ELSE map
        room == IF Len(cleaned) >= size /\ cleaned # <<>>
                   /\ Truthy(cleaned[1].key)
                THEN MapDelete(cleaned, cleaned[1].key)
                ELSE cleaned
    IN  MapSet(room, [key |-> key, data |-> data, timestamp |-> t, ttl |-> ttl])

\* lines 246-260: the value returned, null as Absent
Cache_get(map, key, t) ==
    LET found == SelectSeq(map, LAMBDA item : item.key = key)
    IN  IF found = <<>> THEN Absent
        ELSE IF Expired(found[1], t) THEN Absent
        ELSE Some(found[1].data)

\* lines 246-276: the map after get or has
Cache_touch(map, key, t) ==
    SelectSeq(map, LAMBDA item : ~ (item.key = key /\ Expired(item, t)))

(***************************************************************************)
(* CacheSpec: one Cache of maxSize 1..MaxCacheSize under calls of set,     *)
(* get, has, delete and clear while its items expire.                      *)
(***************************************************************************)
CacheKeys == {"", "a", "b"}
CacheTtls == {0, DefaultTtl}

CacheInit ==
    /\ tasks = EmptyBag
    /\ clock = StartTime
    /\ today = StartDate
    /\ rateLimitStore = [k \in {} |-> <<>>]
    /\ HandlerUnused("cache")
    /\ failing = {}
    /\ answered = NoKeys
    /\ inflight = <<>>
    /\ admitted = [u \in {} |-> <<>>]
    /\ limiterRequests = [k \in {} |-> <<>>]
    /\ limiter = [maxRequests |-> 10, windowMs |-> 60000]
    /\ allowed = Absent
    /\ cache = <<>>
    /\ maxSize \in 1..MaxCacheSize
    /\ lastSet = Absent
    /\ served = 0
    /\ fetched = Absent

\* what the calls on the cache leave alone
CacheFrame ==
    UNCHANGED <<tasks, clock, today, rateLimitStore, handlerVars, scoreVars,
                failing, answered, concVars, limiterVars, maxSize, served,
                fetched>>

\* cache.set(key, data, ttl)
Set ==
    /\ \E key \in CacheKeys, ttl \in CacheTtls :
         /\ cache' = Cache_set(cache, maxSize, key, 1, ttl, clock)
         /\ lastSet' = Some([key |-> key, at |-> clock, before |-> cache,
                              after |-> cache'])
    /\ CacheFrame

\* cache.get(key) and cache.has(key)
GetOrHas ==
    /\ \E key \in CacheKeys : cache' = Cache_touch(cache, key, clock)
    /\ lastSet' = lastSet
    /\ CacheFrame

\* cache.delete(key)
Delete ==
    /\ \E key \in CacheKeys : cache' = MapDelete(cache, key)
    /\ lastSet' = lastSet
    /\ CacheFrame

\* cache.clear()
Clear ==
    /\ cache' = <<>>
    /\ lastSet' = lastSet
    /\ CacheFrame

CacheTick ==
    /\ clock < StartTime + MaxCacheTicks * TickMs
    /\ clock' = clock + TickMs
    /\ UNCHANGED <<tasks, today, rateLimitStore, handlerVars, scoreVars,
                   otherVars>>

CacheNext == Set \/ GetOrHas \/ Delete \/ Clear \/ CacheTick

CacheSpec == CacheInit /\ [][CacheNext]_vars

(***************************************************************************)
(* useAnalytics.fetchAnalytics (unnamed/part_001:38-84) over the           *)
(* analyticsCache of security.ts:308.                                      *)
(***************************************************************************)
AnalyticsCacheSize == 10
AnalyticsTtl == 300000

\* security.ts:312-314, with one part
createCacheKey(prefix, part) == prefix \o ":" \o part

\* security.ts:317-338: the value returned, the cache afterwards and
\* whether fetchFn was called.  fresh is what fetchFn resolves to, Absent
\* when it throws.
withCache(map, size, cacheKey, fresh, ttl, t) ==
    LET cached == Cache_get(map, cacheKey, t)
        touched == Cache_touch(map, cacheKey, t)
    IN  IF cached # Absent
        THEN [data |-> cached, cache |-> touched, invoked |-> FALSE]
        ELSE IF IsPresent(fresh)
        THEN [data |-> fresh,
              cache |-> Cache_set(touched, size, cacheKey, Get(fresh), ttl, t),
              invoked |-> TRUE]
        ELSE [data |-> Absent, cache |-> touched, invoked |-> TRUE]

\* part_001:38-84: the outcome of fetchAnalytics(forceRefresh) for the
\* signed-in user; data is Absent when the call throws
fetchAnalytics(map, size, userId, forceRefresh, fresh, t) ==
    LET cacheKey == createCacheKey("analytics", userId)
        cached == Cache_get(map, cacheKey, t)
        touched == Cache_touch(map, cacheKey, t)
    IN  IF ~ forceRefresh /\ IsPresent(cached)
        THEN [data |-> cached, cache |-> touched, invoked |-> FALSE]
        ELSE withCache(IF forceRefresh THEN map ELSE touched, size, cacheKey,
                       fresh, AnalyticsTtl, t)

(***************************************************************************)
(* FetchSpec: calls of fetchAnalytics and invalidateCache by two users of  *)
(* one browser session after the other, while the report the edge function *)
(* serves changes and the cached reports age.                              *)
(***************************************************************************)
FetchInit ==
    /\ tasks = EmptyBag
    /\ clock = StartTime
    /\ today = StartDate
    /\ rateLimitStore = [k \in {} |-> <<>>]
    /\ HandlerUnused("client")
    /\ failing = {}
    /\ answered = NoKeys
    /\ inflight = <<>>
    /\ admitted = [u \in {} |-> <<>>]
    /\ limiterRequests = [k \in {} |-> <<>>]
    /\ limiter = [maxRequests |-> 10, windowMs |-> 60000]
    /\ allowed = Absent
    /\ cache = <<>>
    /\ maxSize = AnalyticsCacheSize
    /\ lastSet = Absent
    /\ served = 0
    /\ fetched = Absent

FetchFrame ==
    UNCHANGED <<tasks, clock, today, rateLimitStore, handlerVars, scoreVars,
                failing, answered, concVars, limiterVars, maxSize, lastSet,
                served>>

\* part_001:38-84; a call without a signed-in user throws at line 44
FetchAnalytics ==
    /\ \E forceRefresh \in BOOLEAN, session \in {Absent, Some("u1"), Some("u2")},
          answers \in BOOLEAN :
         IF IsPresent(session)
         THEN LET fresh == IF answers THEN Some([version |-> served]) ELSE Absent
                  out == fetchAnalytics(cache, maxSize, Get(session),
                                        forceRefresh, fresh, clock)
              IN  /\ cache' = out.cache
                  /\ fetched' = Some([forceRefresh |-> forceRefresh,
                                      user |-> session,
                                      invoked |-> out.invoked,
                                      data |-> out.data,
                                      fresh |-> fresh])
         ELSE /\ cache' = cache
              /\ fetched' = Some([forceRefresh |-> forceRefresh,
                                  user |-> session,
                                  invoked |-> FALSE,
                                  data |-> Absent,
                                  fresh |-> Absent])
    /\ FetchFrame

\* part_001:86-92
InvalidateCache ==
    /\ \E userId \in {"u1", "u2"} :
         cache' = MapDelete(cache, createCacheKey("analytics", userId))
    /\ fetched' = fetched
    /\ FetchFrame

\* the user's tasks change: the edge function has another report to serve
ServeAnother ==
    /\ served < MaxVersions
    /\ served' = served + 1
    /\ UNCHANGED <<tasks, clock, today, rateLimitStore, handlerVars, scoreVars,
                   failing, answered, concVars, limiterVars, cache, maxSize,
                   lastSet, fetched>>

FetchTick ==
    /\ clock < StartTime + MaxFetchTicks * FetchTickMs
    /\ clock' = clock + FetchTickMs
    /\ UNCHANGED <<tasks, today, rateLimitStore, handlerVars, scoreVars,
                   otherVars>>

FetchNext == FetchAnalytics \/ InvalidateCache \/ ServeAnother \/ FetchTick

FetchSpec == FetchInit /\ [][FetchNext]_vars

(***************************************************************************)
(* SkewSpec: the five count queries of the fallback strategy, sent         *)
(* together by Promise.all (index.ts:159-165) and answered one by one in   *)
(* any order, while the user adds, deletes and updates tasks.              *)
(***************************************************************************)
SkewRows ==
    [owner : {"u1"}, status : Statuses, priority : {Some("high")},
     due : {Some(0)}, inserted_at : {StartDate}, tags : {NoTags}]

SkewInit ==
    /\ tasks \in BagsUpTo(MaxSkewTasks, SkewRows)
    /\ clock = StartTime
    /\ today = StartDate
    /\ rateLimitStore = [k \in {"u1"} |-> <<StartTime>>]
    /\ pc = "counts"
    /\ method = Some("GET")
    /\ user = Some("u1")
    /\ now = StartTime
    /\ countsError = TRUE
    /\ taskCounts = Absent
    /\ analytics = Absent
    /\ returned = Absent
    /\ error = Absent
    /\ scoreIn = [total |-> 0, completed |-> 0, overdue |-> 0, inProgress |-> 0]
    /\ scoreOut = NoScore
    /\ OthersIdle

SkewFrame ==
    UNCHANGED <<clock, today, rateLimitStore, method, user, now, countsError,
                taskCounts, returned, error, scoreVars, failing, concVars,
                limiterVars, cacheVars>>

\* lines 160-164: the database answers one of the count queries
CountQuery ==
    /\ pc = "counts"
    /\ \E q \in CountQueries \ DOMAIN answered :
         answered' = [k \in DOMAIN answered \cup {q} |->
                        IF k = q
                        THEN CountResults(tasks, Get(user), now, failing)[q]
                        ELSE answered[k]]
    /\ UNCHANGED <<tasks, pc, analytics>>
    /\ SkewFrame

\* lines 167-190, once Promise.all has every answer
Assemble ==
    /\ pc = "counts"
    /\ DOMAIN answered = CountQueries
    /\ LET a == InitialAnalytics([q \in CountQueries |-> OrZero(answered[q])])
       IN  \E score \in js_productivityScore(a) :
             analytics' = Some([a EXCEPT !.productivityScore = score])
    /\ pc' = "sample"
    /\ UNCHANGED <<tasks, answered>>
    /\ SkewFrame

\* the user creates a task
CreateTask ==
    /\ pc = "counts"
    /\ BagCardinality(tasks) < MaxSkewTasks
    /\ \E row \in SkewRows : tasks' = AddRow(tasks, row)
    /\ UNCHANGED <<pc, analytics, answered>>
    /\ SkewFrame

\* the user deletes a task
RemoveTask ==
    /\ pc = "counts"
    /\ \E row \in DOMAIN tasks : tasks' = tasks (-) SetToBag({row})
    /\ UNCHANGED <<pc, analytics, answered>>
    /\ SkewFrame

\* the user changes the status of a task
UpdateStatus ==
    /\ pc = "counts"
    /\ \E row \in DOMAIN tasks :
       \E status \in Statuses \ {row.status} :
         tasks' = AddRow(tasks (-) SetToBag({row}),
                         [row EXCEPT !.status = status])
    /\ UNCHANGED <<pc, analytics, answered>>
    /\ SkewFrame

SkewNext ==
    \/ CountQuery
    \/ Assemble
    \/ CreateTask
    \/ RemoveTask
    \/ UpdateStatus

SkewSpec == SkewInit /\ [][SkewNext]_vars

(***************************************************************************)
(* LimiterSpec: the client's RateLimiter, constructed as useAuth.ts:7 does *)
(* or with its defaults, and the edge function's rateLimitCheck, each      *)
(* called for one identity again and again while the clock passes the      *)
(* window.                                                                 *)
(***************************************************************************)
Limiters == {[maxRequests |-> 5, windowMs |-> 60000],
             [maxRequests |-> 10, windowMs |-> 60000]}
LimiterIdentifiers == {"c1", "c2"}

LimiterInit ==
    /\ tasks = EmptyBag
    /\ clock = StartTime
    /\ today = StartDate
    /\ rateLimitStore = [k \in {} |-> <<>>]
    /\ HandlerUnused("limiter")
    /\ failing = {}
    /\ answered = NoKeys
    /\ inflight = <<>>
    /\ admitted = [u \in {} |-> <<>>]
    /\ limiterRequests = [k \in {} |-> <<>>]
    /\ limiter \in Limiters
    /\ allowed = Absent
    /\ cache = <<>>
    /\ maxSize = 100
    /\ lastSet = Absent
    /\ served = 0
    /\ fetched = Absent

\* authRateLimiter.isAllowed(clientId) (useAuth.ts:106)
IsAllowed ==
    /\ LET identifier == "c1"
           out == isAllowed(limiter, limiterRequests, identifier, clock)
       IN  /\ limiterRequests' = out.requests
           /\ allowed' = Some([identifier |-> identifier,
                               result |-> out.allowed, at |-> clock])
    /\ UNCHANGED <<tasks, clock, today, rateLimitStore, handlerVars, scoreVars,
                   failing, answered, concVars, limiter, cacheVars>>

\* rateLimitCheck(user.id) (index.ts:128)
EdgeCheck ==
    /\ rateLimitStore' =
         IF rateLimitCheck(rateLimitStore, "u1", clock)
         THEN rateLimitRecord(rateLimitStore, "u1", clock)
         ELSE rateLimitStore
    /\ allowed' = Absent
    /\ UNCHANGED <<tasks, clock, today, handlerVars, scoreVars, failing,
                   answered, concVars, limiterRequests, limiter, cacheVars>>

LimiterTick ==
    /\ clock < StartTime + MaxLimiterTicks * TickMs
    /\ clock' = clock + TickMs
    /\ UNCHANGED <<tasks, today, rateLimitStore, handlerVars, scoreVars,
                   otherVars>>

LimiterNext == IsAllowed \/ EdgeCheck \/ LimiterTick

LimiterSpec == LimiterInit /\ [][LimiterNext]_vars

(***************************************************************************)
(* ScoreSpec: the score formula of both implementations over bare counts.  *)
(***************************************************************************)
ScoreInputs ==
    {c \in [total : 0..MaxCount, completed : 0..MaxCount,
            overdue : 0..MaxCount, inProgress : 0..MaxCount] :
        /\ c.completed <= c.total
        /\ c.overdue <= c.total
        /\ c.inProgress <= c.total}

ScoreInit ==
    /\ tasks = EmptyBag
    /\ clock = StartTime
    /\ today = StartDate
    /\ rateLimitStore = [k \in {} |-> <<>>]
    /\ pc = "score"
    /\ method = Absent
    /\ user = Absent
    /\ now = 0
    /\ countsError = FALSE
    /\ taskCounts = Absent
    /\ analytics = Absent
    /\ returned = Absent
    /\ error = Absent
    /\ scoreIn \in ScoreInputs
    /\ scoreOut = NoScore
    /\ OthersIdle

ScoreSql ==
    /\ pc = "score"
    /\ ~ IsPresent(scoreOut.sql)
    /\ scoreOut' =
         [scoreOut EXCEPT !.sql =
            Some(sql_productivity_score(
                   scoreIn.total,
                   sql_completion_rate(scoreIn.total, scoreIn.completed),
                   scoreIn.overdue, scoreIn.inProgress))]
    /\ UNCHANGED <<tasks, clock, today, rateLimitStore, handlerVars, scoreIn, otherVars>>

ScoreJs ==
    /\ pc = "score"
    /\ ~ IsPresent(scoreOut.js)
    /\ LET a == InitialAnalytics(
                  [totalTasks |-> scoreIn.total,
                   completedTasks |-> scoreIn.completed,
                   pendingTasks |-> 0,
                   inProgressTasks |-> scoreIn.inProgress,
                   overdueTasks |-> scoreIn.overdue])
       IN  \E score \in js_productivityScore(a) :
             scoreOut' = [scoreOut EXCEPT !.js = Some(score)]
    /\ UNCHANGED <<tasks, clock, today, rateLimitStore, handlerVars, scoreIn, otherVars>>

ScoreNext == ScoreSql \/ ScoreJs

ScoreSpec == ScoreInit /\ [][ScoreNext]_vars

(***************************************************************************)
(* TrendSpec: both strategies over one snapshot of rows created on         *)
(* different days, run and run again for the same now while the wall       *)
(* clock goes past midnight.                                               *)
(***************************************************************************)
DayMs == 86400000

\* the 15th, and the 29th, 30th and 31st of a month, none before the day
\* a row was created
TrendDates == {Date(2024, 3, 15), Date(2024, 3, 29), Date(2024, 8, 30),
               Date(2024, 3, 31)}

TrendInserted == {Date(2023, 9, 10), Date(2023, 9, 15), Date(2023, 10, 5),
                  Date(2024, 2, 29), Date(2024, 3, 15)}

TrendRows ==
    [owner : {"u1"}, status : {"pending", "done"}, priority : {Absent},
     due : {Absent}, inserted_at : TrendInserted, tags : {NoTags}]

TrendInit ==
    /\ tasks \in BagsUpTo(MaxTrendTasks, TrendRows)
    /\ clock = StartTime
    /\ today \in TrendDates
    /\ rateLimitStore = [k \in {} |-> <<>>]
    /\ pc = "trend"
    /\ method = Some("GET")
    /\ user = Some("u1")
    /\ now = StartTime
    /\ countsError = FALSE
    /\ taskCounts = Absent
    /\ analytics = Absent
    /\ returned = Absent
    /\ error = Absent
    /\ scoreIn = [total |-> 0, completed |-> 0, overdue |-> 0, inProgress |-> 0]
    /\ scoreOut = NoScore
    /\ OthersIdle

\* the routine, called with p_now = now
TrendBulk ==
    /\ pc = "trend"
    /\ \E report \in get_task_analytics(tasks, Get(user), now,
                                         nextWeekOf(now), today) :
         taskCounts' = Some(report)
    /\ UNCHANGED <<method, tasks, clock, today, rateLimitStore, pc, user, now,
                   countsError, analytics, returned, error, scoreVars, otherVars>>

\* lines 153-259, with the now of line 136
TrendFallback ==
    /\ pc = "trend"
    /\ LET a == InitialAnalytics(FallbackCounts(tasks, Get(user), now))
       IN  \E score \in js_productivityScore(a) :
           \E recentTasks \in RecentTasks(tasks, Get(user)) :
             analytics' =
               Some(WithDeadlines(
                      WithSample([a EXCEPT !.productivityScore = score],
                                 recentTasks, today),
                      js_upcomingTasks(tasks, Get(user), now, nextWeekOf(now))))
    /\ UNCHANGED <<method, tasks, clock, today, rateLimitStore, pc, user, now,
                   countsError, taskCounts, returned, error, scoreVars, otherVars>>

Midnight ==
    /\ pc = "trend"
    /\ clock < StartTime + MaxDays * DayMs
    /\ clock' = clock + DayMs
    /\ today' = NextDay(today)
    /\ UNCHANGED <<tasks, rateLimitStore, handlerVars, scoreVars, otherVars>>

TrendNext == TrendBulk \/ TrendFallback \/ Midnight

TrendSpec == TrendInit /\ [][TrendNext]_vars

(***************************************************************************)
(* DeadlineSpec: both strategies over snapshots of rows due around now and *)
(* around now + 7 days, alone or beside a crowd of DeadlineLimit rows due  *)
(* just after now.                                                         *)
(***************************************************************************)
DeadlineDues ==
    {Absent, Some(StartTime - 1), Some(StartTime), Some(StartTime + 1),
     Some(StartTime + WeekMs), Some(StartTime + WeekMs + 1)}

DeadlineRows ==
    [owner : {"u1"}, status : {"pending", "done"}, priority : {Some("high")},
     due : DeadlineDues, inserted_at : {StartDate}, tags : {NoTags}]
    \cup
    [owner : {"u2"}, status : {"pending"}, priority : {Some("high")},
     due : {Some(StartTime + 1)}, inserted_at : {StartDate}, tags : {NoTags}]

Crowd ==
    [row \in {[owner |-> "u1", status |-> "pending", priority |-> Some("high"),
               due |-> Some(StartTime + 1), inserted_at |-> StartDate,
               tags |-> NoTags]} |-> DeadlineLimit]

DeadlineInit ==
    /\ tasks \in {few (+) many : few \in BagsUpTo(MaxDeadlineTasks, DeadlineRows),
                                 many \in {EmptyBag, Crowd}}
    /\ clock = StartTime
    /\ today = StartDate
    /\ rateLimitStore = [k \in {} |-> <<>>]
    /\ pc = "aggregate"
    /\ method = Some("GET")
    /\ user = Some("u1")
    /\ now = StartTime
    /\ countsError = FALSE
    /\ taskCounts = Absent
    /\ analytics = Absent
    /\ returned = Absent
    /\ error = Absent
    /\ scoreIn = [total |-> 0, completed |-> 0, overdue |-> 0, inProgress |-> 0]
    /\ scoreOut = NoScore
    /\ OthersIdle

DeadlineSpec == DeadlineInit /\ [][AggNext]_vars

(***************************************************************************)
(* TagSpec: both strategies over snapshots of rows with few tags, and of a *)
(* row with MaxTags distinct tags, alone or beside a row that repeats some *)
(* of them.                                                                *)
(***************************************************************************)
TagNames ==
    <<"t01", "t02", "t03", "t04", "t05", "t06", "t07", "t08", "t09", "t10",
      "t11", "t12", "t13", "t14", "t15", "t16", "t17", "t18", "t19", "t20",
      "t21", "t22", "t23", "t24", "t25", "t26", "t27", "t28", "t29", "t30">>

ManyTags == [i \in 1..MaxTags |-> TagNames[i]]

FewTags == <<"t01", "t01", "t02">>

TagRow(owner, tags) ==
    [owner |-> owner, status |-> "pending", priority |-> Absent, due |-> Absent,
     inserted_at |-> StartDate, tags |-> tags]

FewTagRows ==
    {TagRow("u1", NoTags), TagRow("u1", Some(<<>>)), TagRow("u1", Some(FewTags)),
     TagRow("u1", Some(<<"T01">>)), TagRow("u2", Some(<<"other">>))}

TagInit ==
    /\ tasks \in BagsUpTo(MaxTagTasks, FewTagRows)
                 \cup {SetToBag({TagRow("u1", Some(ManyTags))}),
                       SetToBag({TagRow("u1", Some(ManyTags)),
                                 TagRow("u1", Some(FewTags))})}
    /\ clock = StartTime
    /\ today = StartDate
    /\ rateLimitStore = [k \in {} |-> <<>>]
    /\ pc = "aggregate"
    /\ method = Some("GET")
    /\ user = Some("u1")
    /\ now = StartTime
    /\ countsError = FALSE
    /\ taskCounts = Absent
    /\ analytics = Absent
    /\ returned = Absent
    /\ error = Absent
    /\ scoreIn = [total |-> 0, completed |-> 0, overdue |-> 0, inProgress |-> 0]
    /\ scoreOut = NoScore
    /\ OthersIdle

TagSpec == TagInit /\ [][AggNext]_vars

(***************************************************************************)
(* Properties.                                                             *)
(***************************************************************************)
Abs(x) == IF x < 0 THEN 0 - x ELSE x

SumValues(f) == SumCopies(f, DOMAIN f)

\* the rows of the user the aggregation runs for
CallerRows == Where(tasks, {r \in DOMAIN tasks : r.owner = Get(user)})

\* the handler has returned from a GET request
GetDone == pc = "done" /\ method = Some("GET")

\* the fields of a report
ReportFields ==
    {"totalTasks", "completedTasks", "pendingTasks", "inProgressTasks",
     "completionRate", "averageCompletionTime", "overdueTasks",
     "tasksByPriority", "tasksByTag", "productivityScore", "monthlyTrends",
     "upcomingDeadlines"}

IsReportResponse(r) ==
    /\ r.kind = "Response"
    /\ r.status = 200
    /\ DOMAIN r.body = ReportFields

\* C1: when the rpc of a GET request that passed authentication, validation
\* and the rate limit answers with an error, the handler ends by returning
\* a successful response that carries the report of the fallback strategy.
C1_FallbackDelivered ==
    (GetDone /\ countsError) =>
        /\ IsReportResponse(Get(returned))
        /\ Get(returned).body = Get(analytics)

\* C2: every GET request ends with a complete report or with one of the
\* four rejections (unauthorized, bad request, too many requests, generic
\* failure).
C2_ReportOrRejection ==
    GetDone =>
        \/ IsReportResponse(Get(returned))
        \/ /\ Get(returned).kind = "Response"
           /\ Get(returned).status \in {401, 400, 429, 500}
           /\ DOMAIN Get(returned).body = {"error"}

\* C3: the report a caller receives on the bulk strategy carries the same
\* totalTasks, completedTasks, pendingTasks, inProgressTasks, overdueTasks,
\* completionRate and productivityScore as the fallback strategy reports
\* for the same snapshot and the same now.
C3_BulkMatchesFallback ==
    (GetDone /\ IsPresent(taskCounts)) =>
        LET bulk == Get(returned).body
            fallback == InitialAnalytics(FallbackCounts(tasks, Get(user), now))
        IN  /\ bulk.totalTasks = fallback.totalTasks
            /\ bulk.completedTasks = fallback.completedTasks
            /\ bulk.pendingTasks = fallback.pendingTasks
            /\ bulk.inProgressTasks = fallback.inProgressTasks
            /\ bulk.overdueTasks = fallback.overdueTasks
            /\ bulk.completionRate.num * fallback.completionRate.den
                 = fallback.completionRate.num * bulk.completionRate.den
            /\ bulk.productivityScore \in js_productivityScore(fallback)

\* C4: for counts with completed, overdue, inProgress <= total, the score
\* of the SQL routine and the score of the fallback are integers in 0..100.
C4_ScoreInRange ==
    /\ IsPresent(scoreOut.sql) => Get(scoreOut.sql) \in 0..100
    /\ IsPresent(scoreOut.js) => Get(scoreOut.js) \in 0..100

C4_Witness ==
    /\ scoreIn.total >= 10
    /\ scoreIn.completed = scoreIn.total
    /\ scoreIn.overdue = 0
    /\ scoreIn.inProgress >= 4
    /\ scoreOut.sql = Some(100)
    /\ scoreOut.js = Some(100)

\* round(0.4 * 100c/t + 0.3 * max(0, 100 - 100o/t) + 0.2 * min(100, 10t)
\*       + 0.1 * min(100, 25i)), halves rounded up; 0 when t = 0
RoundedFormula(c) ==
    IF c.total = 0 THEN 0
    ELSE (4000 * c.completed
          + 30 * Max(0, 100 * c.total - 100 * c.overdue)
          + 20 * c.total * Min(100, 10 * c.total)
          + 10 * c.total * Min(100, 25 * c.inProgress)
          + 50 * c.total) \div (100 * c.total)

\* C5: the score is the rounded weighted sum of the four components, 0 for
\* no tasks, and 65 for 10 tasks of which 4 are done, 2 overdue and 2 in
\* progress.  For the fallback, whose sum is a double, the rounded sum is
\* required to be among the values Math.round can give.
C5_ScoreIsRoundedFormula ==
    /\ IsPresent(scoreOut.sql) => Get(scoreOut.sql) = RoundedFormula(scoreIn)
    /\ IsPresent(scoreOut.js) =>
         RoundedFormula(scoreIn) \in
           js_productivityScore(InitialAnalytics(
             [totalTasks |-> scoreIn.total,
              completedTasks |-> scoreIn.completed,
              pendingTasks |-> 0,
              inProgressTasks |-> scoreIn.inProgress,
              overdueTasks |-> scoreIn.overdue]))
    /\ scoreIn = [total |-> 10, completed |-> 4, overdue |-> 2, inProgress |-> 2]
         => /\ IsPresent(scoreOut.sql) => Get(scoreOut.sql) = 65
            /\ IsPresent(scoreOut.js) => Get(scoreOut.js) = 65

StatusCountsAddUp(r) ==
    /\ r.completedTasks + r.pendingTasks + r.inProgressTasks <= r.totalTasks
    /\ (\A row \in DOMAIN CallerRows : row.status \in Statuses)
         => r.completedTasks + r.pendingTasks + r.inProgressTasks = r.totalTasks

\* C6: in the result of either strategy, completedTasks + pendingTasks +
\* inProgressTasks <= totalTasks, with equality when every row of the user
\* has one of the three statuses.
C6_StatusCountsAddUp ==
    /\ IsPresent(taskCounts) => StatusCountsAddUp(Get(taskCounts))
    /\ IsPresent(analytics) => StatusCountsAddUp(Get(analytics))

C6_Witness ==
    /\ IsPresent(taskCounts)
    /\ IsPresent(analytics)
    /\ Get(taskCounts).totalTasks = 2
    /\ Get(taskCounts).pendingTasks = 1
    /\ Get(taskCounts).inProgressTasks = 1
    /\ Get(analytics).totalTasks = 2
    /\ Get(analytics).pendingTasks = 1
    /\ Get(analytics).inProgressTasks = 1

RateIs(r, withError) ==
    IF r.totalTasks = 0
    THEN /\ r.completionRate.num = 0
         /\ r.completionRate.den = 1
         /\ withError => r.completionRate.err = 0
    ELSE /\ r.completionRate.den > 0
         /\ r.completionRate.num * r.totalTasks
              = 100 * r.completedTasks * r.completionRate.den
         /\ withError => 2 * Abs(r.completionRate.err) <= r.completionRate.den

\* C7: in the result of either strategy, completionRate is 0 when
\* totalTasks is 0 and is 100 * completedTasks / totalTasks otherwise (in
\* the SQL routine to within half a unit of the 20th decimal place of the
\* quotient, which is what NUMERIC keeps).
C7_CompletionRate ==
    /\ IsPresent(taskCounts) => RateIs(Get(taskCounts), TRUE)
    /\ IsPresent(analytics) => RateIs(Get(analytics), FALSE)

C7_Witness ==
    /\ IsPresent(taskCounts)
    /\ IsPresent(analytics)
    /\ Get(taskCounts).totalTasks = 2
    /\ Get(taskCounts).completedTasks = 1
    /\ Get(taskCounts).completionRate.num = 100
    /\ Get(analytics).completionRate = [num |-> 100, den |-> 2]

IsOverdue(row) ==
    /\ row.status # "done"
    /\ IsPresent(row.due)
    /\ Get(row.due) < now

\* C8: in the result of either strategy, overdueTasks is the number of the
\* user's rows that are not done and have a due date strictly before now.
C8_OverdueCount ==
    /\ IsPresent(taskCounts) =>
         Get(taskCounts).overdueTasks = CountWhere(CallerRows, {row \in DOMAIN CallerRows : IsOverdue(row)})
    /\ IsPresent(analytics) =>
         Get(analytics).overdueTasks = CountWhere(CallerRows, {row \in DOMAIN CallerRows : IsOverdue(row)})

C8_Witness ==
    /\ IsPresent(taskCounts)
    /\ IsPresent(analytics)
    /\ \E late, atNow \in DOMAIN CallerRows :
         /\ late.status # "done" /\ late.due = Some(0)
         /\ atNow.status # "done" /\ atNow.due = Some(now)
    /\ Get(taskCounts).overdueTasks = 1
    /\ Get(analytics).overdueTasks = 1

KeysAndSum(r) ==
    /\ DOMAIN r.tasksByPriority = Priorities
    /\ SumValues(r.tasksByPriority) = r.totalTasks

\* C9: in the result of either strategy, the keys of tasksByPriority are
\* exactly low, medium and high and the three values sum to totalTasks.
C9_PriorityKeysAndSum ==
    /\ IsPresent(taskCounts) => KeysAndSum(Get(taskCounts))
    /\ IsPresent(analytics) => KeysAndSum(Get(analytics))

EffectivePriority(row) ==
    IF IsPresent(row.priority) /\ Get(row.priority) \in Priorities
    THEN Get(row.priority)
    ELSE "medium"

OneBucketPerTask(r) ==
    /\ DOMAIN r.tasksByPriority \subseteq Priorities
    /\ \A p \in Priorities :
         (IF p \in DOMAIN r.tasksByPriority THEN r.tasksByPriority[p] ELSE 0)
           = CountWhere(CallerRows, {row \in DOMAIN CallerRows : EffectivePriority(row) = p})

\* C10: every row of the user is counted in exactly one bucket of
\* tasksByPriority: that of its stored priority when it is low, medium or
\* high, medium otherwise; there is no bucket beside these three.
C10_OneBucketPerTask ==
    /\ IsPresent(taskCounts) => OneBucketPerTask(Get(taskCounts))
    /\ IsPresent(analytics) => OneBucketPerTask(Get(analytics))

\* the first day of the month k months before that of a date
MonthBefore(date, k) == sql_minus_months(Date(date.year, date.month, 1), k)

\* the six calendar months that end with the month of a date, oldest first
WindowMonths(date) ==
    [k \in 1..6 |-> YearMonth(MonthBefore(date, 6 - k))]

\* a report aggregated on the day the state is in
AggregatedToday == clock = StartTime

SixMonths(r) ==
    /\ Len(r.monthlyTrends) = 6
    /\ \A k \in 1..6 : r.monthlyTrends[k].month = WindowMonths(today)[k]

\* C11: on either strategy monthlyTrends has exactly 6 entries, the months
\* from 5 months before the current month through the current month in
\* ascending order, whatever the tasks and whatever the day of the month.
C11_SixMonths ==
    AggregatedToday =>
        /\ IsPresent(taskCounts) => SixMonths(Get(taskCounts))
        /\ IsPresent(analytics) => SixMonths(Get(analytics))

CreatedIn(month) ==
    CountWhere(CallerRows, {row \in DOMAIN CallerRows :
                              YearMonth(row.inserted_at) = month})

CompletedIn(month) ==
    CountWhere(CallerRows, {row \in DOMAIN CallerRows :
                              /\ YearMonth(row.inserted_at) = month
                              /\ row.status = "done"})

BucketsCountTasks(r) ==
    /\ \A i \in DOMAIN r.monthlyTrends :
         LET bucket == r.monthlyTrends[i]
         IN  /\ bucket.month \in Range(WindowMonths(today))
             /\ bucket.created = CreatedIn(bucket.month)
             /\ bucket.completed = CompletedIn(bucket.month)
             /\ bucket.completed <= bucket.created
    /\ \A row \in DOMAIN CallerRows :
         YearMonth(row.inserted_at) \in Range(WindowMonths(today))
           => \E i \in DOMAIN r.monthlyTrends :
                r.monthlyTrends[i].month = YearMonth(row.inserted_at)
    /\ r.totalTasks = BagCardinality(CallerRows)

\* C12: on either strategy every bucket is one of the 6 months of the
\* window, its created is the number of the user's tasks created in that
\* month and its completed the number of those that are done; a task
\* created in the window is in the bucket of its month, a task created
\* outside it is in no bucket, and all are counted in totalTasks.
C12_BucketsCountTasks ==
    AggregatedToday =>
        /\ IsPresent(taskCounts) => BucketsCountTasks(Get(taskCounts))
        /\ IsPresent(analytics) => BucketsCountTasks(Get(analytics))

\* C17: an aggregation over the same snapshot for the same now gives the
\* report the aggregation before it gave, on either strategy, whatever the
\* wall clock has done in between.
C17_SameInputsSameReport ==
    [][(tasks' = tasks /\ now' = now) =>
         /\ (IsPresent(taskCounts) /\ IsPresent(taskCounts'))
              => taskCounts' = taskCounts
         /\ (IsPresent(analytics) /\ IsPresent(analytics'))
              => analytics' = analytics]_vars

\* the user's rows that are not done and due in [now, now + 7 days]
DueThisWeek ==
    Where(CallerRows, {row \in DOMAIN CallerRows :
                         /\ row.status # "done"
                         /\ IsPresent(row.due)
                         /\ now <= Get(row.due)
                         /\ Get(row.due) <= now + WeekMs})

SafeDeadlines(r) ==
    LET list == r.upcomingDeadlines
    IN  /\ Len(list) <= 10
        /\ \A i, j \in DOMAIN list : i <= j => list[i].dueDate <= list[j].dueDate
        /\ \A i \in DOMAIN list :
             /\ now <= list[i].dueDate
             /\ list[i].dueDate <= now + WeekMs
             /\ Cardinality({j \in DOMAIN list : list[j] = list[i]})
                  <= CountWhere(DueThisWeek, {row \in DOMAIN DueThisWeek :
                        /\ Get(row.due) = list[i].dueDate
                        /\ COALESCE(row.priority, "medium") = list[i].priority})

\* C13: on either strategy upcomingDeadlines has at most 10 entries in
\* ascending order of due date, each the entry of a task of the user that
\* is not done and is due no earlier than now and no later than now + 7
\* days (no more entries of a kind than there are such tasks).
C13_SafeDeadlines ==
    /\ IsPresent(taskCounts) => SafeDeadlines(Get(taskCounts))
    /\ IsPresent(analytics) => SafeDeadlines(Get(analytics))

C13_Witness ==
    /\ IsPresent(taskCounts)
    /\ IsPresent(analytics)
    /\ BagCardinality(DueThisWeek) > DeadlineLimit
    /\ \E other \in DOMAIN CallerRows :
         \/ other.status = "done" /\ other.due = Some(now)
         \/ other.status = "pending" /\ other.due = Some(now - 1)
         \/ other.status = "pending" /\ other.due = Some(now + WeekMs + 1)
    /\ Len(Get(taskCounts).upcomingDeadlines) = 10
    /\ Len(Get(analytics).upcomingDeadlines) = 10

DueDatesOf(list) == [i \in DOMAIN list |-> list[i].dueDate]

\* the due dates of the 10 earliest of the tasks due this week
EarliestDue ==
    LET ordered == OrderByDueDate(DueThisWeek)
    IN  [i \in 1..Min(10, Len(ordered)) |-> Get(ordered[i].due)]

\* C14: on either strategy upcomingDeadlines lists the user's tasks that
\* are not done and due in [now, now + 7 days], both ends included: all of
\* them when there are at most 10, the 10 earliest otherwise.
C14_DueThisWeekListed ==
    /\ IsPresent(taskCounts) =>
         DueDatesOf(Get(taskCounts).upcomingDeadlines) = EarliestDue
    /\ IsPresent(analytics) =>
         DueDatesOf(Get(analytics).upcomingDeadlines) = EarliestDue

\* the tag strings of the user's tasks
CallerTags ==
    UNION {Range(Get(row.tags)) : row \in {x \in DOMAIN CallerRows : IsPresent(x.tags)}}

\* the occurrences of a tag string in the tags lists of the user's tasks
TagOccurrences(tag) ==
    SumCopies([row \in DOMAIN CallerRows |->
                 IF IsPresent(row.tags)
                 THEN CallerRows[row] * Occurrences(Get(row.tags), tag)
                 ELSE 0],
              DOMAIN CallerRows)

\* C15: tasksByTag of the SQL routine holds min(20, number of distinct
\* tags) of the tag strings of the user's tasks, each with the number of
\* its occurrences, and no tag left out has more occurrences than a tag
\* kept; so more than 20 distinct tags used once each leave exactly 20.
C15_TopTags ==
    IsPresent(taskCounts) =>
        LET kept == DOMAIN Get(taskCounts).tasksByTag
        IN  /\ kept \subseteq CallerTags
            /\ \A tag \in kept :
                 Get(taskCounts).tasksByTag[tag] = TagOccurrences(tag)
            /\ Cardinality(kept) = Min(20, Cardinality(CallerTags))
            /\ \A tag \in kept : \A dropped \in CallerTags \ kept :
                 TagOccurrences(tag) >= TagOccurrences(dropped)

C15_Witness ==
    /\ IsPresent(taskCounts)
    /\ Cardinality(CallerTags) > 20
    /\ Cardinality(DOMAIN Get(taskCounts).tasksByTag) = 20
    /\ \E tag \in CallerTags : TagOccurrences(tag) = 3
    /\ \E tag \in CallerTags \ DOMAIN Get(taskCounts).tasksByTag :
         TagOccurrences(tag) = 1

EmptyReport(r) ==
    /\ r.totalTasks = 0
    /\ r.completedTasks = 0
    /\ r.pendingTasks = 0
    /\ r.inProgressTasks = 0
    /\ r.overdueTasks = 0
    /\ r.completionRate.num = 0
    /\ r.productivityScore = 0
    /\ r.tasksByPriority = [low |-> 0, medium |-> 0, high |-> 0]
    /\ r.tasksByTag = NoKeys
    /\ Len(r.monthlyTrends) = 6
    /\ \A k \in DOMAIN r.monthlyTrends :
         r.monthlyTrends[k].created = 0 /\ r.monthlyTrends[k].completed = 0
    /\ r.upcomingDeadlines = <<>>

\* C16: for a user without tasks the report of either strategy has every
\* count, completionRate and productivityScore 0, tasksByPriority
\* {low: 0, medium: 0, high: 0}, no tag, 6 monthly entries of zeros and no
\* deadline.
C16_EmptyReport ==
    DOMAIN CallerRows = {} =>
        /\ IsPresent(taskCounts) => EmptyReport(Get(taskCounts))
        /\ IsPresent(analytics) => EmptyReport(Get(analytics))

\* the reports the fallback can give for a store
FallbackReports(store) ==
    LET a == InitialAnalytics(FallbackCounts(store, Get(user), now))
    IN  {WithDeadlines(
           WithSample([a EXCEPT !.productivityScore = score], recentTasks, today),
           js_upcomingTasks(store, Get(user), now, nextWeekOf(now))) :
             score \in js_productivityScore(a),
             recentTasks \in RecentTasks(store, Get(user))}

\* C18: the report of either strategy is a report the strategy gives for
\* the store without the rows of other owners: what others own changes
\* nothing in it.
C18_OwnTasksOnly ==
    /\ IsPresent(taskCounts) =>
         Get(taskCounts) \in get_task_analytics(CallerRows, Get(user), now,
                                                nextWeekOf(now), today)
    /\ IsPresent(analytics) => Get(analytics) \in FallbackReports(CallerRows)

C18_Witness ==
    /\ IsPresent(taskCounts)
    /\ IsPresent(analytics)
    /\ \E mine, theirs \in DOMAIN tasks :
         /\ mine.owner = Get(user)
         /\ theirs.owner # Get(user)
         /\ theirs.status = "pending"
         /\ theirs.due = Some(2 * StartTime)
    /\ Get(taskCounts).totalTasks = 1
    /\ Get(analytics).totalTasks = 1

\* no query of the tasks table was issued for the request
NoQuery == taskCounts = Absent /\ ~ countsError /\ analytics = Absent

RejectedWith(status) ==
    /\ Get(returned).kind = "Response"
    /\ Get(returned).status = status

\* C19: a GET request without a session ends unauthorized and one with a
\* malformed id ends as a bad request; a request that ends unauthorized,
\* as a bad request or rate-limited has issued no query of the tasks
\* table; a query is issued only for a well-formed id, after the request's
\* timestamp was recorded; and a timestamp is recorded only by the step
\* that passes the rate limit and goes on to the aggregation.
C19_Ordered ==
    /\ [](GetDone =>
            /\ RejectedWith(401) => user = Absent /\ NoQuery
            /\ RejectedWith(400) => IsPresent(user) /\ NoQuery
            /\ RejectedWith(429) => NoQuery
            /\ (user = Absent /\ ~ RejectedWith(500)) => RejectedWith(401)
            /\ (IsPresent(user) /\ Get(user) \notin WellFormedIds)
                 => RejectedWith(400)
            /\ ~ NoQuery =>
                 /\ IsPresent(user)
                 /\ Get(user) \in WellFormedIds
                 /\ Get(user) \in DOMAIN rateLimitStore
                 /\ now \in Range(rateLimitStore[Get(user)]))
    /\ [][rateLimitStore' # rateLimitStore =>
            /\ pc = "rateLimit"
            /\ pc' = "rpc"
            /\ Get(user) \in WellFormedIds]_vars

C19_Witness ==
    /\ GetDone
    /\ RejectedWith(400)
    /\ user = Some("not-a-uuid")
    /\ DOMAIN rateLimitStore = {"u1"}

\* C20: a request over the rate limit ends with a too-many-requests
\* response that carries a retry-after duration, in a Retry-After header
\* or in its body, and for which no query was issued.
C20_RetryAfter ==
    (GetDone /\ RejectedWith(429)) =>
        /\ \/ "Retry-After" \in Get(returned).headers
           \/ "retryAfter" \in DOMAIN Get(returned).body
        /\ NoQuery

\* C21: a GET request in which an error was thrown ends with the failure
\* response, and no field of the response's body holds the message of the
\* error that was caught.
C21_NoInternalDetail ==
    (GetDone /\ IsPresent(error)) =>
        /\ RejectedWith(500)
        /\ \A field \in DOMAIN Get(returned).body :
             Get(returned).body[field] # Get(error).message

\* C22: a request of the fallback strategy during which a count query, the
\* sample query or the deadline query failed ends with the failure
\* response and returns no report.
C22_FailedQuerySurfaces ==
    (pc = "done" /\ countsError /\ failing # {}) =>
        /\ RejectedWith(500)
        /\ Get(returned).kind # "Object"

\* the times of a list that lie in the window (t - windowMs, t]
InWindow(times, t) == SelectSeq(times, LAMBDA time : time > t - windowMs /\ time <= t)

\* C23: whatever the order in which concurrent requests are checked, for
\* every identity and every window (t - windowMs, t] that ends at one of
\* its admissions or now, at most maxRequests of its admissions lie in the
\* window; and the timestamps the store holds of the current window are
\* the admissions of that window, each once.
C23_WindowHolds ==
    \A u \in ConcIdentities :
        /\ \A t \in Range(admitted[u]) \cup {clock} :
             Len(InWindow(admitted[u], t)) <= maxRequests
        /\ recentRequestsOf(rateLimitStore, u, clock) = InWindow(admitted[u], clock)

C23_Witness ==
    /\ clock > StartTime
    /\ Len(InWindow(admitted["u1"], clock)) = maxRequests
    /\ Len(inflight) = 2
    /\ \A i \in DOMAIN inflight :
         inflight[i].user = "u1" /\ inflight[i].pc = "auth"

\* requests per identity and minute the README states (README.md:205)
DocumentedMaxRequests == 10

\* C24: a request is rejected as rate-limited only when the identity
\* already has 10 admitted requests in the last 60 seconds: the 10th is
\* served and the 11th is the first to be rejected.
C24_TenPerMinute ==
    (GetDone /\ RejectedWith(429)) =>
        Len(recentRequestsOf(rateLimitStore, Get(user), clock))
            >= DocumentedMaxRequests

\* the due date of a row is a text that is no timestamp
HasUnparseableDue(row) == IsPresent(row.due) /\ Get(row.due) \in UnparseableDues

\* C25: with rows whose due date is no timestamp in the table, the bulk
\* routine still answers the request, and the report the request ends
\* with counts every row of the user in totalTasks, counts as overdue only
\* rows whose due date is a timestamp before now, and lists no row whose
\* due date is no timestamp among the upcoming deadlines.
C25_MalformedDueSkipped ==
    /\ pc = "rpc" =>
         get_task_analytics(tasks, Get(user), clock, nextWeekOf(clock), today) # {}
    /\ (pc = "done" /\ IsPresent(analytics)) =>
         /\ Get(analytics).totalTasks = BagCardinality(CallerRows)
         /\ Get(analytics).overdueTasks =
              CountWhere(CallerRows, {row \in DOMAIN CallerRows :
                                        IsOverdue(row) /\ ~ HasUnparseableDue(row)})
         /\ \A i \in DOMAIN Get(analytics).upcomingDeadlines :
              Get(analytics).upcomingDeadlines[i].dueDate \notin UnparseableDues

\* the last call of set was for a key the cache did not hold and found the
\* cache full with no expired item
SetOnFullCache ==
    /\ IsPresent(lastSet)
    /\ ~ MapHas(Get(lastSet).before, Get(lastSet).key)
    /\ Len(Get(lastSet).before) >= maxSize
    /\ \A i \in DOMAIN Get(lastSet).before :
         ~ Expired(Get(lastSet).before[i], Get(lastSet).at)

C27_ForceRefreshIsFresh ==
    (/\ IsPresent(fetched)
     /\ Get(fetched).forceRefresh
     /\ IsPresent(Get(fetched).user)) =>
        /\ Get(fetched).invoked
        /\ Get(fetched).data = Get(fetched).fresh

\* C28: whatever the user does to the table between the answers of the
\* five count queries, the counts the fallback strategy reports have
\* completedTasks <= totalTasks and overdueTasks <= totalTasks, and
\* completionRate and productivityScore lie in [0, 100].
C28_SkewKeepsBounds ==
    (pc = "sample" /\ IsPresent(analytics)) =>
        LET r == Get(analytics)
        IN  /\ r.completedTasks <= r.totalTasks
            /\ r.overdueTasks <= r.totalTasks
            /\ 0 <= r.completionRate.num
            /\ r.completionRate.num <= 100 * r.completionRate.den
            /\ 0 <= r.productivityScore
            /\ r.productivityScore <= 100

\* the step is the rate limit check of request i
IsCheckOf(i) ==
    /\ i \in DOMAIN inflight'
    /\ inflight[i].pc = "auth"
    /\ inflight'[i].pc # "auth"

\* C29: no identity's stored list ever holds more than maxRequests
\* timestamps; a check that rejects leaves the store as it was; and a check
\* for one identity leaves the outcome a check for any other identity would
\* have at that moment as it was.
C29_RejectionFrame ==
    /\ [](\A u \in DOMAIN rateLimitStore :
            Len(rateLimitStore[u]) <= maxRequests)
    /\ [][\A i \in DOMAIN inflight :
            IsCheckOf(i) =>
              /\ inflight'[i].pc = "rejected" => rateLimitStore' = rateLimitStore
              /\ \A other \in ConcIdentities \ {inflight[i].user} :
                   rateLimitCheck(rateLimitStore', other, clock)
                     = rateLimitCheck(rateLimitStore, other, clock)]_vars

C29_Witness ==
    /\ clock > StartTime
    /\ \E i \in DOMAIN inflight :
         inflight[i].pc = "rejected" /\ inflight[i].user = "u1"
    /\ Len(admitted["u1"]) = maxRequests
    /\ Len(admitted["u2"]) > 0

\* the oldest timestamp of a list that is not empty
Oldest(times) == CHOOSE time \in Range(times) : \A o \in Range(times) : time <= o

\* C30: once windowMs has passed since the oldest timestamp recorded for
\* an identity, its next check is admitted, by the client's limiter and by
\* the edge function's; right after isAllowed has returned false for an
\* identity, getRetryAfter of that identity is at least 1 and at most
\* windowMs / 1000 seconds; and it is 0 for an identity with no recorded
\* request.
C30_AdmittedAgain ==
    /\ \A id \in DOMAIN limiterRequests :
         clock >= Oldest(limiterRequests[id]) + limiter.windowMs
           => isAllowed(limiter, limiterRequests, id, clock).allowed
    /\ \A u \in DOMAIN rateLimitStore :
         clock >= Oldest(rateLimitStore[u]) + windowMs
           => rateLimitCheck(rateLimitStore, u, clock)
    /\ (IsPresent(allowed) /\ ~ Get(allowed).result /\ Get(allowed).at = clock) =>
         getRetryAfter(limiterRequests, Get(allowed).identifier, clock)
           \in 1..(limiter.windowMs \div 1000)
    /\ \A id \in LimiterIdentifiers \ DOMAIN limiterRequests :
         getRetryAfter(limiterRequests, id, clock) = 0

C30_Witness ==
    /\ IsPresent(allowed)
    /\ ~ Get(allowed).result
    /\ Len(limiterRequests["c1"]) = limiter.maxRequests
    /\ clock >= Oldest(limiterRequests["c1"]) + limiter.windowMs
    /\ "u1" \in DOMAIN rateLimitStore
    /\ Len(rateLimitStore["u1"]) = maxRequests
    /\ clock >= Oldest(rateLimitStore["u1"]) + windowMs

====
